---- MODULE Spec2Model ----
(***************************************************************************)
(* The server-side connection core of hyper (src/server/conn.rs): the      *)
(* Http configuration, the Connection future with its h1 -> h2 fallback,   *)
(* the UpgradeableConnection wrapper and the Parts hand-over.              *)
(*                                                                         *)
(* The h1 dispatcher, the h2 server, Rewind and the pending upgrade live   *)
(* outside conn.rs; they are modelled from their specified interface.      *)
(***************************************************************************)
EXTENDS Integers, Sequences, FiniteSets, TLC

VARIABLES
    http,       \* the Http<E> configuration value
    wrapper,    \* which future owns the connection: "unbound", "Connection",
                \* "UpgradeableConnection", "WithoutShutdown" (the future of
                \* without_shutdown), "consumed" (into_parts took it)
    conn,       \* Connection.conn : Option<Either<h1 Dispatcher, h2 Server>>
    fallback,   \* Connection.fallback : Fallback<E>
    io,         \* the transport: bytes sent by the peer and not yet read, EOF, shutdown
    pending,    \* the PendingUpgrade of the exchange that asked for an upgrade
    hist,       \* history: what the peer sent and h1 has not consumed, what was built
    last,       \* history: the last call made on the connection and what it returned
    panicked,   \* "none", or the message of the panic that unwound the task
    serve,      \* the Serve stream bound by serve_incoming, and SpawnAll over it
    tasks       \* the Connecting futures Serve has yielded, and their NewSvcTasks

vars == <<http, wrapper, conn, fallback, io, pending, hist, last, panicked,
          serve, tasks>>

----------------------------------------------------------------------------
(* Bounds of the model *)

\* the peer sends at most this many byte tokens on the connection
MaxSent == 2

\* iterations of a poll loop that are unrolled (the code's loop runs at most
\* twice: once on h1, once more on h2 after the transition)
MaxLoop == 3

----------------------------------------------------------------------------
(* The wire.  A token stands for a run of bytes:                           *)
(*   "P"  the 24-byte HTTP/2 connection preface                            *)
(*   "R"  a complete HTTP/1 request                                        *)
(*   "U"  a complete HTTP/1 request asking for an upgrade                  *)
(*   "D"  bytes that are not HTTP/1 (h2 frames, post-upgrade data)         *)

Tokens == {"P", "R", "U", "D"}

TheService == "service"

ErrKinds == {"VersionH2", "ParseOther", "Io", "H2"}

IsErr(r) == r \in ErrKinds

\* what a poll returns for a driver's result: Dispatched is dropped
PollRetOf(res) == IF res \in {"Shutdown", "Upgrade"} THEN "Ok" ELSE res

Take(s, n) == SubSeq(s, 1, n)

Drop(s, n) == SubSeq(s, n + 1, Len(s))

----------------------------------------------------------------------------
(* Http: the configuration *)

\* Option<T>: None is the empty sequence, Some(x) the sequence of x alone
NoneOpt == <<>>

Some(x) == <<x>>

\* h2::server::Builder::default(): nothing overridden
H2BuilderDefault ==
    [initial_window_size |-> NoneOpt,
     initial_connection_window_size |-> NoneOpt,
     max_concurrent_streams |-> NoneOpt]

HttpNew ==
    [exec |-> "Default",
     h1_half_close |-> TRUE,
     h1_writev |-> TRUE,
     h2_builder |-> H2BuilderDefault,
     mode |-> "Fallback",
     keep_alive |-> TRUE,
     max_buf_size |-> NoneOpt,
     pipeline_flush |-> FALSE]

\* http1_only that never leaves a protocol-only mode it has set
http1_only_Sticky(self, val) ==
    IF val THEN [self EXCEPT !.mode = "H1Only"] ELSE self

http1_only(self, val) ==
    [self EXCEPT !.mode = IF val THEN "H1Only" ELSE "Fallback"]

http2_only(self, val) ==
    [self EXCEPT !.mode = IF val THEN "H2Only" ELSE "Fallback"]

\* Http::http1_half_close
http1_half_close(self, val) ==
    [self EXCEPT !.h1_half_close = val]

\* Http::http1_writev
http1_writev(self, val) ==
    [self EXCEPT !.h1_writev = val]

\* Http::http2_initial_stream_window_size, sz : Option<u32>
http2_initial_stream_window_size(self, sz) ==
    IF sz # NoneOpt
    THEN [self EXCEPT !.h2_builder.initial_window_size = Some(sz[1])]
    ELSE self

\* Http::http2_initial_connection_window_size, sz : Option<u32>
http2_initial_connection_window_size(self, sz) ==
    IF sz # NoneOpt
    THEN [self EXCEPT !.h2_builder.initial_connection_window_size = Some(sz[1])]
    ELSE self

\* Http::http2_max_concurrent_streams, max : Option<u32>
http2_max_concurrent_streams(self, max) ==
    IF max # NoneOpt
    THEN [self EXCEPT !.h2_builder.max_concurrent_streams = Some(max[1])]
    ELSE self

keep_alive(self, val) ==
    [self EXCEPT !.keep_alive = val]

\* proto::h1::MINIMUM_MAX_BUFFER_SIZE
MINIMUM_MAX_BUFFER_SIZE == 8192

\* max_buf_size without the assertion
max_buf_size_NoAssert(self, max) ==
    [self |-> [self EXCEPT !.max_buf_size = Some(max)], panicked |-> "none"]

\* Http::max_buf_size: the configuration, or the panic of the assertion
max_buf_size(self, max) ==
    IF ~(max >= MINIMUM_MAX_BUFFER_SIZE)
    THEN [self |-> self,
          panicked |-> "the max_buf_size cannot be smaller than the minimum that h1 specifies."]
    ELSE [self |-> [self EXCEPT !.max_buf_size = Some(max)], panicked |-> "none"]

\* Http::pipeline_flush
pipeline_flush(self, enabled) ==
    [self EXCEPT !.pipeline_flush = enabled]

\* with_executor that starts from a fresh configuration
with_executor_FromNew(self, exec) ==
    [HttpNew EXCEPT !.exec = exec]

\* Http::with_executor: a new Http<E2> built field by field
with_executor(self, exec) ==
    [exec |-> exec,
     h1_half_close |-> self.h1_half_close,
     h1_writev |-> self.h1_writev,
     h2_builder |-> self.h2_builder,
     mode |-> self.mode,
     keep_alive |-> self.keep_alive,
     max_buf_size |-> self.max_buf_size,
     pipeline_flush |-> self.pipeline_flush]

----------------------------------------------------------------------------
(* Rewind<T>: a stream with an optional pre-read buffer *)

RewindNew == [pre |-> <<>>, rewinds |-> 0]

\* rewind(bytes): sets the pre-read
RewindRewind(rw, bytes) == [pre |-> bytes, rewinds |-> rw.rewinds + 1]

\* a read of n bytes: the pre-read first, then the inner stream
RewindRead(rw, unread, n) ==
    LET fromPre == IF n <= Len(rw.pre) THEN n ELSE Len(rw.pre)
        fromIo  == n - fromPre
    IN  [bytes  |-> Take(rw.pre, fromPre) \o Take(unread, fromIo),
         rw     |-> [rw EXCEPT !.pre = Drop(rw.pre, fromPre)],
         unread |-> Drop(unread, fromIo)]

RewindAvail(rw, unread) == Len(rw.pre) + Len(unread)

----------------------------------------------------------------------------
(* proto::h1::Dispatcher over proto::Conn: interface only *)

\* proto::Conn::new(io) wrapped by Dispatcher::new(Server::new(service), conn)
H1New(service) ==
    [read_buf |-> <<>>,        \* read from io, not consumed as HTTP
     ka |-> "Busy",            \* keep-alive state: Busy, Idle, Disabled
     inflight |-> "none",      \* the exchange being served: none, "R", "U"
     closed |-> FALSE,         \* the conversation is over
     half_close |-> TRUE,
     flatten |-> FALSE,
     flush_pipeline |-> FALSE,
     max_buf_size |-> NoneOpt,  \* set_max_buf_size not called: the default
     service |-> service]

\* disable_keep_alive(): an idle connection closes, a busy one closes after
\* the exchange in flight.  A driver that has read no request yet is busy, not
\* idle: serve_connection makes this same call on the new driver for
\* keep_alive(false), and that connection must still serve its one request.
H1DisableKeepAlive(h1) ==
    IF h1.ka = "Idle"
    THEN [h1 EXCEPT !.closed = TRUE, !.ka = "Disabled"]
    ELSE [h1 EXCEPT !.ka = "Disabled"]

\* into_inner(): (io, read_buf, dispatch); the io is the transport itself
H1IntoInner(h1) == [read_buf |-> h1.read_buf, service |-> h1.service]

\* One poll of the h1 driver on what it has buffered.  k is the number of
\* service futures that complete during this poll; eof is the peer's close.
\* Returns the driver and one of Pending, Shutdown, Upgrade, or an error kind.
RECURSIVE H1Run(_, _, _, _)
H1Run(h1, k, eof, consumed) ==
    IF h1.closed
    THEN [h1 |-> h1, res |-> "Shutdown", consumed |-> consumed]
    ELSE IF h1.inflight # "none"
    THEN IF k = 0
         THEN [h1 |-> h1, res |-> "Pending", consumed |-> consumed]
         ELSE IF h1.inflight = "U"
         THEN [h1 |-> [h1 EXCEPT !.inflight = "none", !.closed = TRUE],
               res |-> "Upgrade", consumed |-> consumed]
         ELSE H1Run([h1 EXCEPT !.inflight = "none",
                               !.ka = IF h1.ka = "Busy" THEN "Idle" ELSE h1.ka,
                               !.closed = (h1.ka # "Busy")],
                    k - 1, eof, consumed)
    ELSE IF h1.read_buf = <<>>
    THEN IF eof
         THEN [h1 |-> [h1 EXCEPT !.closed = TRUE], res |-> "Shutdown",
               consumed |-> consumed]
         ELSE [h1 |-> h1, res |-> "Pending", consumed |-> consumed]
    ELSE IF Head(h1.read_buf) = "P"
    THEN [h1 |-> h1, res |-> "VersionH2", consumed |-> consumed]
    ELSE IF Head(h1.read_buf) = "D"
    THEN [h1 |-> h1, res |-> "ParseOther", consumed |-> consumed]
    ELSE H1Run([h1 EXCEPT !.read_buf = Tail(h1.read_buf),
                          !.inflight = Head(h1.read_buf),
                          !.ka = IF h1.ka = "Idle" THEN "Busy" ELSE h1.ka],
               k, eof, consumed + 1)

\* Dispatcher::poll / poll_without_shutdown: read n bytes, then run; the
\* peer's close is seen once everything it sent has been read.
\* c = [n, k, ioerr]: bytes read, futures completed, transport failure.
H1Poll(h1, tio, c, should_shutdown) ==
    IF c.ioerr /\ ~h1.closed
    THEN [h1 |-> h1, io |-> tio, res |-> "Io", consumed |-> 0]
    ELSE LET n    == IF h1.closed THEN 0
                     ELSE IF c.n <= Len(tio.unread) THEN c.n ELSE Len(tio.unread)
             h1r  == [h1 EXCEPT !.read_buf = h1.read_buf \o Take(tio.unread, n)]
             eof  == tio.eof /\ n = Len(tio.unread)
             run  == H1Run(h1r, c.k, eof, 0)
         IN  [h1 |-> run.h1,
              io |-> [tio EXCEPT !.unread = Drop(tio.unread, n),
                                 !.shut = tio.shut
                                     \/ (should_shutdown /\ run.res = "Shutdown")],
              res |-> run.res,
              consumed |-> run.consumed]

----------------------------------------------------------------------------
(* proto::h2::Server over Rewind<T>: interface only *)

H2New(rewind_io, service, builder, exec) ==
    [rw |-> rewind_io,
     got |-> <<>>,             \* the bytes the h2 engine has read, in order
     graceful |-> FALSE,
     service |-> service,
     builder |-> builder,
     exec |-> exec]

H2GracefulShutdown(h2) == [h2 EXCEPT !.graceful = TRUE]

\* an h2 driver that ends with an upgrade where it should end with a shutdown
H2Poll_Upgrades(h2, tio, c) ==
    LET n   == IF c.n2 <= RewindAvail(h2.rw, tio.unread) THEN c.n2
               ELSE RewindAvail(h2.rw, tio.unread)
        rd  == RewindRead(h2.rw, tio.unread, n)
        got == h2.got \o rd.bytes
        res == IF got # <<>> /\ Head(got) # "P" THEN "H2"
               ELSE IF c.out2 = "Shutdown"
                       /\ ~(h2.graceful \/ (tio.eof /\ rd.unread = <<>> /\ rd.rw.pre = <<>>))
               THEN "Pending"
               ELSE IF c.out2 = "Shutdown" /\ "U" \in {got[i] : i \in 1..Len(got)}
               THEN "Upgrade"
               ELSE c.out2
    IN  [h2 |-> [h2 EXCEPT !.rw = rd.rw, !.got = got],
         io |-> [tio EXCEPT !.unread = rd.unread,
                            !.shut = tio.shut \/ res = "Shutdown"],
         res |-> res]

\* One poll of the h2 driver.  c = [n2, out2]: bytes read through the Rewind
\* and the engine's outcome.  Bytes that do not start with the preface are a
\* protocol error; a clean close needs the peer's close or a graceful shutdown.
H2Poll(h2, tio, c) ==
    LET n   == IF c.n2 <= RewindAvail(h2.rw, tio.unread) THEN c.n2
               ELSE RewindAvail(h2.rw, tio.unread)
        rd  == RewindRead(h2.rw, tio.unread, n)
        got == h2.got \o rd.bytes
        res == IF got # <<>> /\ Head(got) # "P" THEN "H2"
               ELSE IF c.out2 = "Shutdown"
                       /\ ~(h2.graceful \/ (tio.eof /\ rd.unread = <<>> /\ rd.rw.pre = <<>>))
               THEN "Pending"
               ELSE c.out2
    IN  [h2 |-> [h2 EXCEPT !.rw = rd.rw, !.got = got],
         io |-> [tio EXCEPT !.unread = rd.unread,
                            !.shut = tio.shut \/ res = "Shutdown"],
         res |-> res]

----------------------------------------------------------------------------
(* upgrade::Pending and upgrade::Upgraded: interface only *)

NoUpgraded == [io |-> "-", buf |-> <<>>]

PendingNew == [fulfilled |-> 0, manual |-> 0, upgraded |-> NoUpgraded]

\* Upgraded::new(Box::new(io), buf)
UpgradedNew(the_io, buf) == [io |-> the_io, buf |-> buf]

PendingFulfill(p, upgraded) ==
    [p EXCEPT !.fulfilled = p.fulfilled + 1, !.upgraded = upgraded]

PendingManual(p) == [p EXCEPT !.manual = p.manual + 1]

\* Dispatcher::poll_without_shutdown: poll without shutting the io down; an
\* upgrade is reported as Ok(()) and its pending upgrade told it is manual
H1PollWithoutShutdown(h1, tio, c) ==
    LET p == H1Poll(h1, tio, c, FALSE)
    IN  [h1 |-> p.h1, io |-> p.io, consumed |-> p.consumed,
         res |-> IF p.res \in {"Shutdown", "Upgrade"} THEN "Ok" ELSE p.res,
         manual |-> p.res = "Upgrade"]

----------------------------------------------------------------------------
(* Connection *)

None == [tag |-> "None"]

\* before serve_connection there is no Connection
Unbound == [tag |-> "Unbound"]

NoParts == [io |-> "-", read_buf |-> <<>>, service |-> "-"]

EitherA(h1) == [tag |-> "A", h1 |-> h1]

EitherB(h2) == [tag |-> "B", h2 |-> h2]

Http1Only == [tag |-> "Http1Only"]

ToHttp2(builder, exec) == [tag |-> "ToHttp2", builder |-> builder, exec |-> exec]

\* to_h2 with its two arms exchanged
to_h2_Swapped(fb) == fb.tag = "Http1Only"

\* to_h2 that answers true for every fallback
to_h2_Always(fb) == fb.tag \in {"Http1Only", "ToHttp2"}

\* Fallback::to_h2
to_h2(fb) == fb.tag = "ToHttp2"

TheIo == "io"

\* serve_connection that takes every mode but H2Only for a fallback mode
serve_connection_AlwaysFallback(self, service) ==
    [conn |-> IF self.mode \in {"H1Only", "Fallback"}
              THEN EitherA(IF ~self.keep_alive
                           THEN H1DisableKeepAlive(H1New(service))
                           ELSE H1New(service))
              ELSE EitherB(H2New(RewindNew, service, self.h2_builder, self.exec)),
     fallback |-> IF self.mode # "H2Only"
                  THEN ToHttp2(self.h2_builder, self.exec)
                  ELSE Http1Only]

\* serve_connection that builds the h1 driver in every mode
serve_connection_AlwaysH1(self, service) ==
    [conn |-> EitherA(IF ~self.keep_alive
                      THEN H1DisableKeepAlive(H1New(service))
                      ELSE H1New(service)),
     fallback |-> IF self.mode = "Fallback"
                  THEN ToHttp2(self.h2_builder, self.exec)
                  ELSE Http1Only]

\* Http::serve_connection: the driver slot and the fallback of the new Connection
serve_connection(self, service) ==
    LET either ==
            IF self.mode \in {"H1Only", "Fallback"}
            THEN LET c0 == H1New(service)
                     c1 == IF ~self.keep_alive THEN H1DisableKeepAlive(c0) ELSE c0
                     c2 == IF ~self.h1_half_close
                           THEN [c1 EXCEPT !.half_close = FALSE] ELSE c1
                     c3 == IF ~self.h1_writev
                           THEN [c2 EXCEPT !.flatten = TRUE] ELSE c2
                     c4 == [c3 EXCEPT !.flush_pipeline = self.pipeline_flush]
                     c5 == IF self.max_buf_size # NoneOpt
                           THEN [c4 EXCEPT !.max_buf_size = Some(self.max_buf_size[1])]
                           ELSE c4
                 IN  EitherA(c5)
            ELSE EitherB(H2New(RewindNew, service, self.h2_builder, self.exec))
    IN  [conn |-> either,
         fallback |-> IF self.mode = "Fallback"
                      THEN ToHttp2(self.h2_builder, self.exec)
                      ELSE Http1Only]

(* The operations below act on a context cx: the fields of the Connection  *)
(* (conn, fallback) with the transport, the pending upgrade, the history,  *)
(* the events of the call in progress (evs), its result (ret) and a panic. *)

Panic(cx, msg) == [cx EXCEPT !.panicked = msg, !.ret = "Panic"]

Return(cx, r) == [cx EXCEPT !.ret = r]

Event(cx, ev, res) == [cx EXCEPT !.evs = Append(cx.evs, [ev |-> ev, res |-> res])]

\* what graceful_shutdown found in the slot the first time it was called: an
\* h1 driver that has read no request yet (fresh), one serving an exchange
\* (inflight), one between exchanges (idle), one that is over (closed), or h2
GsOnH1 == {"fresh", "inflight", "idle", "closed"}

GsPhase(c) ==
    IF c.tag = "B" THEN "h2"
    ELSE IF c.tag # "A" THEN "no"
    ELSE IF c.h1.closed THEN "closed"
    ELSE IF c.h1.inflight # "none" THEN "inflight"
    ELSE IF c.h1.ka = "Idle" THEN "idle"
    ELSE "fresh"

\* <Either<A, B> as Future>::poll on the driver in the slot (which is not None)
EitherPoll(cx, c) ==
    IF cx.conn.tag = "A"
    THEN LET p == H1Poll(cx.conn.h1, cx.io, c, TRUE)
         IN  [Event(cx, "h1.poll", p.res) EXCEPT
                 !.conn = EitherA(p.h1),
                 !.io = p.io,
                 !.hist.owed = Drop(cx.hist.owed, p.consumed),
                 !.hist.after_gs = cx.hist.after_gs
                     + (IF cx.hist.gs \in GsOnH1 THEN p.consumed ELSE 0),
                 !.res = p.res]
    ELSE LET p == H2Poll(cx.conn.h2, cx.io, c)
         IN  [Event(cx, "h2.poll", p.res) EXCEPT
                 !.conn = EitherB(p.h2),
                 !.io = p.io,
                 !.res = p.res]

\* upgrade_h2 that forgets to rewind: the bytes h1 had buffered are dropped
upgrade_h2_NoRewind(cx) ==
    LET taken == cx.conn
        took  == [cx EXCEPT !.conn = None]
    IN  IF taken.tag # "A" \/ cx.fallback.tag # "ToHttp2"
        THEN Panic(took, "h2 cannot into_inner")
        ELSE [Event(took, "upgrade_h2", "-") EXCEPT
                 !.conn = EitherB(H2New(RewindNew, H1IntoInner(taken.h1).service,
                                        cx.fallback.builder, cx.fallback.exec)),
                 !.hist.transitions = cx.hist.transitions + 1,
                 !.hist.h2_built = cx.hist.h2_built + 1]

\* upgrade_h2 that builds the h2 driver but leaves the slot empty
upgrade_h2_LeavesTaken(cx) ==
    LET taken == cx.conn
        took  == [cx EXCEPT !.conn = None]
    IN  IF taken.tag # "A" \/ cx.fallback.tag # "ToHttp2"
        THEN Panic(took, "h2 cannot into_inner")
        ELSE [Event(took, "upgrade_h2", "-") EXCEPT
                 !.hist.transitions = cx.hist.transitions + 1,
                 !.hist.h2_built = cx.hist.h2_built + 1]

\* upgrade_h2 that moves the h2 settings out of the fallback
upgrade_h2_TakesFallback(cx) ==
    LET taken == cx.conn
        took  == [cx EXCEPT !.conn = None]
    IN  IF taken.tag # "A" \/ cx.fallback.tag # "ToHttp2"
        THEN Panic(took, "h2 cannot into_inner")
        ELSE [Event(took, "upgrade_h2", "-") EXCEPT
                 !.conn = EitherB(H2New(RewindRewind(RewindNew,
                                                     H1IntoInner(taken.h1).read_buf),
                                        H1IntoInner(taken.h1).service,
                                        cx.fallback.builder, cx.fallback.exec)),
                 !.fallback = Http1Only,
                 !.hist.transitions = cx.hist.transitions + 1,
                 !.hist.h2_built = cx.hist.h2_built + 1]

\* upgrade_h2 that rewinds the stream it has already rewound
upgrade_h2_RewindsTwice(cx) ==
    LET taken == cx.conn
        took  == [cx EXCEPT !.conn = None]
    IN  IF taken.tag # "A" \/ cx.fallback.tag # "ToHttp2"
        THEN Panic(took, "h2 cannot into_inner")
        ELSE LET parts     == H1IntoInner(taken.h1)
                 rewind_io == RewindRewind(RewindRewind(RewindNew, parts.read_buf),
                                           parts.read_buf)
             IN  [Event(took, "upgrade_h2", "-") EXCEPT
                     !.conn = EitherB(H2New(rewind_io, parts.service,
                                            cx.fallback.builder, cx.fallback.exec)),
                     !.hist.transitions = cx.hist.transitions + 1,
                     !.hist.h2_built = cx.hist.h2_built + 1]

\* Connection::upgrade_h2, with its debug_assert that the slot is empty when
\* the h2 driver is stored
upgrade_h2(cx) ==
    LET taken == cx.conn
        took  == [cx EXCEPT !.conn = None]
    IN  IF taken.tag = "None"
        THEN Panic(took, "called Option::unwrap() on a None value")
        ELSE IF taken.tag = "B"
        THEN Panic(took, "h2 cannot into_inner")
        ELSE LET parts     == H1IntoInner(taken.h1)
                 rewind_io == RewindRewind(RewindNew, parts.read_buf)
             IN  IF cx.fallback.tag # "ToHttp2"
                 THEN Panic(took, "unreachable: upgrade_h2 with Fallback::Http1Only")
                 ELSE LET h2 == H2New(rewind_io, parts.service,
                                      cx.fallback.builder, cx.fallback.exec)
                      IN  IF took.conn.tag # "None"
                          THEN Panic(took, "assertion failed: self.conn.is_none()")
                          ELSE [Event(took, "upgrade_h2", "-") EXCEPT
                                   !.conn = EitherB(h2),
                                   !.hist.transitions = cx.hist.transitions + 1,
                                   !.hist.h2_built = cx.hist.h2_built + 1]

\* poll without the fallback arm: every error is returned
ConnectionPoll_NoFallback(cx, c, fuel) ==
    IF cx.conn.tag = "None"
    THEN Panic(cx, "called Option::unwrap() on a None value")
    ELSE LET p == EitherPoll(cx, c)
         IN  IF p.res = "Pending" THEN Return(p, "Pending")
             ELSE IF ~IsErr(p.res)
             THEN IF p.res = "Upgrade"
                  THEN Return([p EXCEPT !.pending = PendingManual(p.pending)], "Ok")
                  ELSE Return(p, "Ok")
             ELSE Return(p, p.res)

\* poll that performs the surrender itself, as UpgradeableConnection does
RECURSIVE ConnectionPoll_Fulfills(_, _, _)
ConnectionPoll_Fulfills(cx, c, fuel) ==
    IF fuel = 0 THEN Return(cx, "Diverge")
    ELSE IF cx.conn.tag = "None"
    THEN Panic(cx, "called Option::unwrap() on a None value")
    ELSE LET p == EitherPoll(cx, c)
         IN  IF p.res = "Pending" THEN Return(p, "Pending")
             ELSE IF p.res = "Shutdown" THEN Return(p, "Ok")
             ELSE IF p.res = "Upgrade"
             THEN Return([p EXCEPT
                             !.conn = None,
                             !.pending = PendingFulfill(p.pending,
                                 UpgradedNew(TheIo, H1IntoInner(p.conn.h1).read_buf))],
                         "Ok")
             ELSE IF p.res = "VersionH2" /\ to_h2(p.fallback)
             THEN LET u == upgrade_h2(p)
                  IN  IF u.panicked # "none" THEN u
                      ELSE ConnectionPoll_Fulfills(u, c, fuel - 1)
             ELSE Return(p, p.res)

\* poll that takes the fallback arm on every parse error
RECURSIVE ConnectionPoll_AnyParse(_, _, _)
ConnectionPoll_AnyParse(cx, c, fuel) ==
    IF fuel = 0 THEN Return(cx, "Diverge")
    ELSE IF cx.conn.tag = "None"
    THEN Panic(cx, "called Option::unwrap() on a None value")
    ELSE LET p == EitherPoll(cx, c)
         IN  IF p.res = "Pending" THEN Return(p, "Pending")
             ELSE IF ~IsErr(p.res)
             THEN IF p.res = "Upgrade"
                  THEN Return([p EXCEPT !.pending = PendingManual(p.pending)], "Ok")
                  ELSE Return(p, "Ok")
             ELSE IF p.res \in {"VersionH2", "ParseOther"} /\ to_h2(p.fallback)
             THEN LET u == upgrade_h2(p)
                  IN  IF u.panicked # "none" THEN u
                      ELSE ConnectionPoll_AnyParse(u, c, fuel - 1)
             ELSE Return(p, p.res)

\* <Connection as Future>::poll
RECURSIVE ConnectionPoll(_, _, _)
ConnectionPoll(cx, c, fuel) ==
    IF fuel = 0 THEN Return(cx, "Diverge")
    ELSE IF cx.conn.tag = "None"
    THEN Panic(cx, "called Option::unwrap() on a None value")
    ELSE LET p == EitherPoll(cx, c)
         IN  IF p.res = "Pending" THEN Return(p, "Pending")
             ELSE IF ~IsErr(p.res)
             THEN IF p.res = "Upgrade"
                  THEN Return([p EXCEPT !.pending = PendingManual(p.pending)], "Ok")
                  ELSE Return(p, "Ok")
             ELSE IF p.res = "VersionH2" /\ to_h2(p.fallback)
             THEN LET u == upgrade_h2(p)
                  IN  IF u.panicked # "none" THEN u
                      ELSE ConnectionPoll(u, c, fuel - 1)
             ELSE Return(p, p.res)

\* poll_without_shutdown that polls the h2 driver instead of panicking (the
\* arm the source has commented out)
RECURSIVE poll_without_shutdown_PollsH2(_, _, _)
poll_without_shutdown_PollsH2(cx, c, fuel) ==
    IF fuel = 0 THEN Return(cx, "Diverge")
    ELSE IF cx.conn.tag = "None"
    THEN Panic(cx, "called Option::unwrap() on a None value")
    ELSE IF cx.conn.tag = "B"
    THEN LET p == EitherPoll(cx, c)
         IN  Return(p, PollRetOf(p.res))
    ELSE LET q == H1PollWithoutShutdown(cx.conn.h1, cx.io, c)
             p == [Event(cx, "h1.poll_without_shutdown", q.res) EXCEPT
                      !.conn = EitherA(q.h1),
                      !.io = q.io,
                      !.hist.owed = Drop(cx.hist.owed, q.consumed),
                      !.hist.after_gs = cx.hist.after_gs
                          + (IF cx.hist.gs \in GsOnH1 THEN q.consumed ELSE 0),
                      !.pending = IF q.manual THEN PendingManual(cx.pending)
                                  ELSE cx.pending]
         IN  IF q.res = "Pending" THEN Return(p, "Pending")
             ELSE IF ~IsErr(q.res) THEN Return(p, "Ok")
             ELSE IF q.res = "VersionH2" /\ to_h2(p.fallback)
             THEN LET u == upgrade_h2(p)
                  IN  IF u.panicked # "none" THEN u
                      ELSE poll_without_shutdown_PollsH2(u, c, fuel - 1)
             ELSE Return(p, q.res)

\* Connection::poll_without_shutdown
RECURSIVE poll_without_shutdown(_, _, _)
poll_without_shutdown(cx, c, fuel) ==
    IF fuel = 0 THEN Return(cx, "Diverge")
    ELSE IF cx.conn.tag = "None"
    THEN Panic(cx, "called Option::unwrap() on a None value")
    ELSE IF cx.conn.tag = "B"
    THEN Panic(cx, "not yet implemented: Connection::poll_without_shutdown h2")
    ELSE LET q == H1PollWithoutShutdown(cx.conn.h1, cx.io, c)
             p == [Event(cx, "h1.poll_without_shutdown", q.res) EXCEPT
                      !.conn = EitherA(q.h1),
                      !.io = q.io,
                      !.hist.owed = Drop(cx.hist.owed, q.consumed),
                      !.hist.after_gs = cx.hist.after_gs
                          + (IF cx.hist.gs \in GsOnH1 THEN q.consumed ELSE 0),
                      !.pending = IF q.manual THEN PendingManual(cx.pending)
                                  ELSE cx.pending]
         IN  IF q.res = "Pending" THEN Return(p, "Pending")
             ELSE IF ~IsErr(q.res) THEN Return(p, "Ok")
             ELSE IF q.res = "VersionH2" /\ to_h2(p.fallback)
             THEN LET u == upgrade_h2(p)
                  IN  IF u.panicked # "none" THEN u
                      ELSE poll_without_shutdown(u, c, fuel - 1)
             ELSE Return(p, q.res)

\* the wrapper's poll handling an upgrade as the plain Connection does
RECURSIVE UpgradeableConnectionPoll_Manual(_, _, _)
UpgradeableConnectionPoll_Manual(cx, c, fuel) ==
    IF fuel = 0 THEN Return(cx, "Diverge")
    ELSE IF cx.conn.tag = "None"
    THEN Panic(cx, "called Option::unwrap() on a None value")
    ELSE LET p == EitherPoll(cx, c)
         IN  IF p.res = "Pending" THEN Return(p, "Pending")
             ELSE IF p.res = "Shutdown" THEN Return(p, "Ok")
             ELSE IF p.res = "Upgrade"
             THEN Return([p EXCEPT !.pending = PendingManual(p.pending)], "Ok")
             ELSE IF p.res = "VersionH2" /\ to_h2(p.fallback)
             THEN LET u == upgrade_h2(p)
                  IN  IF u.panicked # "none" THEN u
                      ELSE UpgradeableConnectionPoll_Manual(u, c, fuel - 1)
             ELSE Return(p, p.res)

\* <UpgradeableConnection as Future>::poll
RECURSIVE UpgradeableConnectionPoll(_, _, _)
UpgradeableConnectionPoll(cx, c, fuel) ==
    IF fuel = 0 THEN Return(cx, "Diverge")
    ELSE IF cx.conn.tag = "None"
    THEN Panic(cx, "called Option::unwrap() on a None value")
    ELSE LET p == EitherPoll(cx, c)
         IN  IF p.res = "Pending" THEN Return(p, "Pending")
             ELSE IF p.res = "Shutdown" THEN Return(p, "Ok")
             ELSE IF p.res = "Upgrade"
             THEN LET taken == p.conn
                      took  == [p EXCEPT !.conn = None]
                  IN  IF taken.tag # "A"
                      THEN Panic(took, "unreachable: Upgrade expects h1")
                      ELSE LET parts == H1IntoInner(taken.h1)
                           IN  Return([Event(took, "fulfill", "-") EXCEPT
                                          !.pending = PendingFulfill(p.pending,
                                              UpgradedNew(TheIo, parts.read_buf))],
                                      "Ok")
             ELSE IF p.res = "VersionH2" /\ to_h2(p.fallback)
             THEN LET u == upgrade_h2(p)
                  IN  IF u.panicked # "none" THEN u
                      ELSE UpgradeableConnectionPoll(u, c, fuel - 1)
             ELSE Return(p, p.res)

\* Connection::graceful_shutdown
graceful_shutdown(cx) ==
    IF cx.conn.tag = "None"
    THEN Panic(cx, "called Option::unwrap() on a None value")
    ELSE IF cx.conn.tag = "A"
    THEN Return([cx EXCEPT !.conn = EitherA(H1DisableKeepAlive(cx.conn.h1))], "()")
    ELSE Return([cx EXCEPT !.conn = EitherB(H2GracefulShutdown(cx.conn.h2))], "()")

\* try_into_parts that hands over an empty read_buf
try_into_parts_DropsBuf(cx) ==
    IF cx.conn.tag = "None"
    THEN Panic(cx, "called Option::unwrap() on a None value")
    ELSE IF cx.conn.tag = "A"
    THEN Return([cx EXCEPT !.parts = [io |-> TheIo,
                                      read_buf |-> <<>>,
                                      service |-> H1IntoInner(cx.conn.h1).service]],
                "Some")
    ELSE Return(cx, "None")

\* Connection::try_into_parts: Some(Parts), left in cx.parts, or None
try_into_parts(cx) ==
    IF cx.conn.tag = "None"
    THEN Panic(cx, "called Option::unwrap() on a None value")
    ELSE IF cx.conn.tag = "A"
    THEN LET inner == H1IntoInner(cx.conn.h1)
         IN  Return([cx EXCEPT !.parts = [io |-> TheIo,
                                          read_buf |-> inner.read_buf,
                                          service |-> inner.service]],
                    "Some")
    ELSE Return(cx, "None")

\* into_parts that passes try_into_parts' answer on without panicking
into_parts_NoPanic(cx) == try_into_parts(cx)

\* Connection::into_parts
into_parts(cx) ==
    LET t == try_into_parts(cx)
    IN  IF t.panicked # "none" THEN t
        ELSE IF t.ret = "None" THEN Panic(t, "h2 cannot into_inner")
        ELSE t

\* Connection::without_shutdown: the poll of the future it returns; r is what
\* poll_without_shutdown left, `?` returns its error and Ok goes on to into_parts
without_shutdown(r) ==
    IF r.panicked # "none" \/ r.ret # "Ok" THEN r
    ELSE into_parts(r)

----------------------------------------------------------------------------
(* The state machine *)

\* The choices one poll can make on the connection as it is: the h1 driver
\* reads n of the unread bytes and completes k service futures, or the
\* transport fails (ioerr); the h2 driver reads n2 bytes and ends in out2.
\* A choice that the poll cannot come to use is fixed to its first value.
Choices ==
    LET onH1   == conn.tag = "A"
        avail  == Len(io.unread)
        buffed == IF onH1 THEN Len(conn.h1.read_buf)
                  ELSE IF conn.tag = "B" THEN Len(conn.h2.rw.pre) ELSE 0
        inflight == IF onH1 /\ conn.h1.inflight # "none" THEN 1 ELSE 0
        h1part == IF onH1
                  THEN [n : 0..avail, k : 0..(avail + buffed + inflight),
                        ioerr : {FALSE}]
                       \cup [n : {0}, k : {0}, ioerr : {TRUE}]
                  ELSE [n : {0}, k : {0}, ioerr : {FALSE}]
        toH2(c1) == onH1 /\ to_h2(fallback)
                    /\ H1Poll(conn.h1, io, c1, TRUE).res = "VersionH2"
        h2part(c1) == IF conn.tag = "B" \/ toH2(c1)
                      THEN [n2 : 0..(avail + buffed),
                            out2 : {"Pending", "Shutdown", "H2"}]
                      ELSE [n2 : {0}, out2 : {"Pending"}]
    IN  UNION {{[n |-> c1.n, k |-> c1.k, ioerr |-> c1.ioerr,
                 n2 |-> c2.n2, out2 |-> c2.out2] : c2 \in h2part(c1)}
               : c1 \in h1part}

----------------------------------------------------------------------------
(* Serve, Connecting, SpawnAll and NewSvcTask *)

\* the Serve stream holds at most this many items (Connecting or error) to yield
MaxItems == 3

\* before serve_incoming
ServeNone ==
    [state |-> "none",         \* "none", "Serve", "SpawnAll"
     protocol |-> NoneOpt,     \* Serve.protocol
     accepted |-> 0,           \* io objects the incoming stream has produced
     ended |-> FALSE,          \* the incoming stream has returned None
     done |-> FALSE,           \* poll_watch has returned Ready
     yielded |-> <<>>,         \* history: the items poll_next has returned
     ever_ready |-> FALSE,     \* history: poll_ready_ref has returned Ok
     inc_polled |-> FALSE]     \* history: the incoming stream has been polled

\* Http::serve_incoming
serve_incoming(self) == [ServeNone EXCEPT !.state = "Serve", !.protocol = Some(self)]

\* Serve::spawn_all
spawn_all(sv) == [sv EXCEPT !.state = "SpawnAll"]

\* Connecting { future, io: Some(io), protocol }
ConnectingNew(k, protocol) ==
    [future |-> "unresolved", io |-> Some(k), protocol |-> protocol]

\* a Connecting that Serve yielded, with what holds it: the caller of
\* poll_next ("stream") or a NewSvcTask ("task"); item is its place among the
\* items yielded
Held(owner, item, connecting) ==
    [owner |-> owner,
     item |-> item,
     state |-> "Connecting",   \* NewSvcTask.state: Connecting, Connected
     connecting |-> connecting,
     conn |-> NoneOpt,         \* the Connection that Connecting resolved to
     watched |-> FALSE,        \* watcher.watch(conn.with_upgrades()) was called
     log |-> "-",              \* what the task has logged
     done |-> FALSE,           \* the future has returned Ready
     out |-> "-"]              \* what it returned

\* A call on Serve / SpawnAll works on sx: the stream, the held futures, the
\* events of the call (evs) and its result (ret).
SCtx == [serve |-> serve, tasks |-> tasks, evs |-> <<>>, ret |-> "-"]

\* what the collaborators do in one iteration: the factory's poll_ready_ref
\* (ready), the incoming stream's poll_next (inc), the executor (exec)
ReadyOutcomes == {"Pending", "Ok", "Err"}

IncomingOutcomes == {"Pending", "Io", "Err", "End"}

\* poll_next that reports a failed accept as a factory error
Serve_poll_next_OneErrorClass(sx, c) ==
    LET s1 == [Event(sx, "poll_ready_ref", c.ready) EXCEPT
                  !.serve.ever_ready = sx.serve.ever_ready \/ c.ready = "Ok"]
    IN  IF c.ready = "Pending" THEN Return(s1, "Pending")
        ELSE IF c.ready = "Err"
        THEN Return([s1 EXCEPT !.serve.yielded =
                        Append(sx.serve.yielded, "UserMakeService")],
                    "UserMakeService")
        ELSE LET s2 == [Event(s1, "incoming.poll_next", c.inc) EXCEPT
                           !.serve.inc_polled = TRUE]
             IN  IF c.inc = "Pending" THEN Return(s2, "Pending")
                 ELSE IF c.inc = "End"
                 THEN Return([s2 EXCEPT !.serve.ended = TRUE], "None")
                 ELSE IF c.inc = "Err"
                 THEN Return([s2 EXCEPT !.serve.yielded =
                                 Append(sx.serve.yielded, "UserMakeService")],
                             "UserMakeService")
                 ELSE LET k  == sx.serve.accepted + 1
                          s3 == Event(s2, "make_service_ref", "-")
                      IN  Return([s3 EXCEPT
                                     !.serve.accepted = k,
                                     !.serve.yielded =
                                         Append(sx.serve.yielded, "Connecting"),
                                     !.tasks = Append(sx.tasks,
                                         Held("stream", Len(sx.serve.yielded) + 1,
                                              ConnectingNew(k, sx.serve.protocol)))],
                                 "Connecting")

\* poll_next that polls the incoming stream whatever the factory says
Serve_poll_next_IncomingFirst(sx, c) ==
    LET s1 == [Event(sx, "incoming.poll_next", c.inc) EXCEPT
                  !.serve.inc_polled = TRUE]
        s2 == [Event(s1, "poll_ready_ref", c.ready) EXCEPT
                  !.serve.ever_ready = sx.serve.ever_ready \/ c.ready = "Ok"]
    IN  IF c.ready = "Pending" THEN Return(s2, "Pending")
        ELSE IF c.ready = "Err"
        THEN Return([s2 EXCEPT !.serve.yielded =
                        Append(sx.serve.yielded, "UserMakeService")],
                    "UserMakeService")
        ELSE IF c.inc = "Pending" THEN Return(s2, "Pending")
        ELSE IF c.inc = "End"
        THEN Return([s2 EXCEPT !.serve.ended = TRUE], "None")
        ELSE IF c.inc = "Err"
        THEN Return([s2 EXCEPT !.serve.yielded = Append(sx.serve.yielded, "Accept")],
                    "Accept")
        ELSE LET k == sx.serve.accepted + 1
             IN  Return([Event(s2, "make_service_ref", "-") EXCEPT
                            !.serve.accepted = k,
                            !.serve.yielded = Append(sx.serve.yielded, "Connecting"),
                            !.tasks = Append(sx.tasks,
                                Held("stream", Len(sx.serve.yielded) + 1,
                                     ConnectingNew(k, sx.serve.protocol)))],
                        "Connecting")

\* poll_next that keeps the stream it has accepted and yields nothing for it
Serve_poll_next_Buffers(sx, c) ==
    LET s1 == [Event(sx, "poll_ready_ref", c.ready) EXCEPT
                  !.serve.ever_ready = sx.serve.ever_ready \/ c.ready = "Ok"]
    IN  IF c.ready = "Pending" THEN Return(s1, "Pending")
        ELSE IF c.ready = "Err"
        THEN Return([s1 EXCEPT !.serve.yielded =
                        Append(sx.serve.yielded, "UserMakeService")],
                    "UserMakeService")
        ELSE LET s2 == [Event(s1, "incoming.poll_next", c.inc) EXCEPT
                           !.serve.inc_polled = TRUE]
             IN  IF c.inc = "Pending" THEN Return(s2, "Pending")
                 ELSE IF c.inc = "End"
                 THEN Return([s2 EXCEPT !.serve.ended = TRUE], "None")
                 ELSE IF c.inc = "Err"
                 THEN Return([s2 EXCEPT !.serve.yielded =
                                 Append(sx.serve.yielded, "Accept")],
                             "Accept")
                 ELSE IF sx.serve.accepted = Len(sx.tasks)
                 THEN Return([s2 EXCEPT !.serve.accepted = sx.serve.accepted + 1],
                             "Pending")
                 ELSE LET s3 == Event(s2, "make_service_ref", "-")
                      IN  Return([s3 EXCEPT
                                     !.serve.accepted = sx.serve.accepted + 1,
                                     !.serve.yielded =
                                         Append(sx.serve.yielded, "Connecting"),
                                     !.tasks = Append(sx.tasks,
                                         Held("stream", Len(sx.serve.yielded) + 1,
                                              ConnectingNew(sx.serve.accepted,
                                                            sx.serve.protocol)))],
                                 "Connecting")

\* <Serve as Stream>::poll_next.  The result is Pending, None (the end of the
\* stream), an error item (UserMakeService, Accept), or Connecting, and then
\* the Connecting is the last of sx.tasks.
Serve_poll_next(sx, c) ==
    LET s1 == [Event(sx, "poll_ready_ref", c.ready) EXCEPT
                  !.serve.ever_ready = sx.serve.ever_ready \/ c.ready = "Ok"]
    IN  IF c.ready = "Pending" THEN Return(s1, "Pending")
        ELSE IF c.ready = "Err"
        THEN Return([s1 EXCEPT !.serve.yielded =
                        Append(sx.serve.yielded, "UserMakeService")],
                    "UserMakeService")
        ELSE LET s2 == [Event(s1, "incoming.poll_next", c.inc) EXCEPT
                           !.serve.inc_polled = TRUE]
             IN  IF c.inc = "Pending" THEN Return(s2, "Pending")
                 ELSE IF c.inc = "End"
                 THEN Return([s2 EXCEPT !.serve.ended = TRUE], "None")
                 ELSE IF c.inc = "Err"
                 THEN Return([s2 EXCEPT !.serve.yielded =
                                 Append(sx.serve.yielded, "Accept")],
                             "Accept")
                 ELSE LET k  == sx.serve.accepted + 1
                          s3 == Event(s2, "make_service_ref", "-")
                      IN  Return([s3 EXCEPT
                                     !.serve.accepted = k,
                                     !.serve.yielded =
                                         Append(sx.serve.yielded, "Connecting"),
                                     !.tasks = Append(sx.tasks,
                                         Held("stream", Len(sx.serve.yielded) + 1,
                                              ConnectingNew(k, sx.serve.protocol)))],
                                 "Connecting")

\* <Connecting as Future>::poll; f is what the factory's future returns.
\* The result is Pending, Err (the factory's own error) or Ok with the
\* Connection that protocol.serve_connection built.
ConnectingPoll(cn, f) ==
    IF f = "Pending" THEN [connecting |-> cn, ret |-> "Pending", conn |-> NoneOpt]
    ELSE IF f = "Err"
    THEN [connecting |-> [cn EXCEPT !.future = "Err"], ret |-> "Err",
          conn |-> NoneOpt]
    ELSE IF cn.io = NoneOpt
    THEN [connecting |-> [cn EXCEPT !.future = "Ok"], ret |-> "Panic",
          conn |-> NoneOpt]
    ELSE [connecting |-> [cn EXCEPT !.future = "Ok", !.io = NoneOpt],
          ret |-> "Ok",
          conn |-> Some(serve_connection(cn.protocol[1], TheService))]

\* NewSvcTask::poll that keeps waiting when the factory has failed
NewSvcTaskPoll_WaitsOnError(t, f, w) ==
    LET r == ConnectingPoll(t.connecting, f)
    IN  IF t.state = "Connecting" /\ r.ret # "Ok"
        THEN [t EXCEPT !.connecting = r.connecting]
        ELSE LET t1 == IF t.state = "Connecting"
                       THEN [t EXCEPT !.connecting = r.connecting, !.conn = r.conn,
                                      !.watched = TRUE, !.state = "Connected"]
                       ELSE t
             IN  IF w = "Pending" THEN t1
                 ELSE [t1 EXCEPT !.done = TRUE, !.out = "()",
                                 !.log = IF w = "Err" THEN "connection error" ELSE "-"]

\* NewSvcTask::poll that hands the connection's error to the executor
NewSvcTaskPoll_ReturnsError(t, f, w) ==
    LET r  == ConnectingPoll(t.connecting, f)
        t0 == [t EXCEPT !.connecting = r.connecting]
    IN  IF t.state = "Connecting" /\ r.ret = "Pending" THEN t0
        ELSE IF t.state = "Connecting" /\ r.ret = "Panic"
        THEN [t0 EXCEPT !.out = "Panic"]
        ELSE IF t.state = "Connecting" /\ r.ret = "Err"
        THEN [t0 EXCEPT !.log = "connecting error: UserMakeService",
                        !.done = TRUE, !.out = "()"]
        ELSE LET t1 == IF t.state = "Connecting"
                       THEN [t0 EXCEPT !.conn = r.conn, !.watched = TRUE,
                                       !.state = "Connected"]
                       ELSE t
             IN  IF w = "Pending" THEN t1
                 ELSE [t1 EXCEPT !.done = TRUE,
                                 !.out = IF w = "Err" THEN "Err" ELSE "()",
                                 !.log = "-"]

\* NewSvcTask::poll that does not store the Connected state
NewSvcTaskPoll_StaysConnecting(t, f, w) ==
    LET r  == ConnectingPoll(t.connecting, f)
        t0 == [t EXCEPT !.connecting = r.connecting]
    IN  IF t.state = "Connecting" /\ r.ret = "Pending" THEN t0
        ELSE IF t.state = "Connecting" /\ r.ret = "Panic"
        THEN [t0 EXCEPT !.out = "Panic"]
        ELSE IF t.state = "Connecting" /\ r.ret = "Err"
        THEN [t0 EXCEPT !.log = "connecting error: UserMakeService",
                        !.done = TRUE, !.out = "()"]
        ELSE LET t1 == [t0 EXCEPT !.conn = r.conn, !.watched = TRUE]
             IN  IF w = "Pending" THEN t1
                 ELSE [t1 EXCEPT !.done = TRUE, !.out = "()",
                                 !.log = IF w = "Err" THEN "connection error" ELSE "-"]

\* NewSvcTask::poll; f is what the factory's future returns, w what the
\* watcher's future returns
NewSvcTaskPoll(t, f, w) ==
    LET r  == ConnectingPoll(t.connecting, f)
        t0 == [t EXCEPT !.connecting = r.connecting]
    IN  IF t.state = "Connecting" /\ r.ret = "Pending" THEN t0
        ELSE IF t.state = "Connecting" /\ r.ret = "Panic"
        THEN [t0 EXCEPT !.out = "Panic"]
        ELSE IF t.state = "Connecting" /\ r.ret = "Err"
        THEN [t0 EXCEPT !.log = "connecting error: UserMakeService",
                        !.done = TRUE, !.out = "()"]
        ELSE LET t1 == IF t.state = "Connecting"
                       THEN [t0 EXCEPT !.conn = r.conn, !.watched = TRUE,
                                       !.state = "Connected"]
                       ELSE t
             IN  IF w = "Pending" THEN t1
                 ELSE [t1 EXCEPT !.done = TRUE, !.out = "()",
                                 !.log = IF w = "Err" THEN "connection error" ELSE "-"]

\* the iteration of poll_watch that goes on: a stream is accepted and its
\* task spawned
Spawned == [ready |-> "Ok", inc |-> "Io", exec |-> "Ok"]

\* SpawnAll::poll_watch: k iterations that spawn a task, then one, t, that
\* leaves the loop.  The result is Pending, Ok, or the error returned.
RECURSIVE SpawnAllPollWatch(_, _, _)
SpawnAllPollWatch(sx, k, t) ==
    LET c == IF k > 0 THEN Spawned ELSE t
        r == Serve_poll_next(sx, c)
    IN  IF r.ret = "Pending" THEN r
        ELSE IF r.ret \in {"UserMakeService", "Accept"} THEN r
        ELSE IF r.ret = "None" THEN Return(r, "Ok")
        ELSE LET n  == Len(r.tasks)
                 r1 == [r EXCEPT !.tasks[n].owner = "task"]
                 r2 == Event(r1, "execute_new_svc", c.exec)
             IN  IF c.exec = "Err"
                 THEN Return([r2 EXCEPT !.tasks = SubSeq(r.tasks, 1, n - 1)],
                             "Execute")
                 ELSE IF k = 0 THEN Return(r2, "Diverge")
                 ELSE SpawnAllPollWatch(r2, k - 1, t)

\* the record of a call that returns no value: its name, its argument, and
\* for a setter the old value of what it sets
LastCall(op, arg, before) ==
    [op |-> op, arg |-> arg, ret |-> "-", evs |-> <<>>, before |-> before,
     parts |-> NoParts]

Init ==
    /\ http = HttpNew
    /\ wrapper = "unbound"
    /\ conn = Unbound
    /\ fallback = Unbound
    /\ io = [unread |-> <<>>, eof |-> FALSE, shut |-> FALSE]
    /\ pending = PendingNew
    /\ hist = [nsent |-> 0,          \* how many tokens the peer has sent
               first |-> "-",        \* the first token the peer sent
               owed |-> <<>>,        \* sent by the peer, not consumed as HTTP/1
               transitions |-> 0,    \* executions of upgrade_h2
               h1_built |-> 0,       \* h1 drivers constructed
               h2_built |-> 0,       \* h2 drivers constructed
               done |-> FALSE,       \* the connection future returned Ready
               bound |-> NoneOpt,    \* Some(the configuration serve_connection read)
               gs |-> "no",          \* the driver's phase at the first graceful_shutdown
               after_gs |-> 0]       \* requests h1 read after that call
    /\ last = LastCall("none", "-", "-")
    /\ panicked = "none"
    /\ serve = ServeNone
    /\ tasks = <<>>

\* the context a call starts from
Ctx ==
    [conn |-> conn, fallback |-> fallback, io |-> io, pending |-> pending,
     hist |-> hist, evs |-> <<>>, ret |-> "-", res |-> "-", parts |-> NoParts,
     panicked |-> "none"]

\* the state a call leaves; a future that returned Ready is done
Commit(op, r, isPoll) ==
    /\ conn' = r.conn
    /\ fallback' = r.fallback
    /\ io' = r.io
    /\ pending' = r.pending
    /\ hist' = [r.hist EXCEPT !.done = r.hist.done \/ (isPoll /\ r.ret # "Pending")]
    /\ last' = [op |-> op, arg |-> "-", ret |-> r.ret, evs |-> r.evs,
                before |-> conn.tag, parts |-> r.parts]
    /\ panicked' = r.panicked
    /\ UNCHANGED <<serve, tasks>>

Live == panicked = "none" /\ wrapper \in {"Connection", "UpgradeableConnection"}

\* the arguments the builder methods are called with
WindowSizes == {NoneOpt, Some(1)}

BufSizes == {MINIMUM_MAX_BUFFER_SIZE - 1, MINIMUM_MAX_BUFFER_SIZE,
             MINIMUM_MAX_BUFFER_SIZE + 1}

Execs == {"E1", "E2"}

\* a builder method: the new configuration, and the call in last
Configured(op, arg, before, new) ==
    /\ panicked = "none"
    /\ http' = new
    /\ last' = LastCall(op, arg, before)
    /\ UNCHANGED <<wrapper, conn, fallback, io, pending, hist, panicked,
                   serve, tasks>>

SetHttp1Only ==
    \E val \in BOOLEAN :
        Configured("http1_only", val, http.mode, http1_only(http, val))

SetHttp2Only ==
    \E val \in BOOLEAN :
        Configured("http2_only", val, http.mode, http2_only(http, val))

SetKeepAlive ==
    \E val \in BOOLEAN :
        Configured("keep_alive", val, "-", keep_alive(http, val))

SetHttp1HalfClose ==
    \E val \in BOOLEAN :
        Configured("http1_half_close", val, "-", http1_half_close(http, val))

SetHttp1Writev ==
    \E val \in BOOLEAN :
        Configured("http1_writev", val, "-", http1_writev(http, val))

SetHttp2InitialStreamWindowSize ==
    \E sz \in WindowSizes :
        Configured("http2_initial_stream_window_size", sz, "-",
                   http2_initial_stream_window_size(http, sz))

SetHttp2InitialConnectionWindowSize ==
    \E sz \in WindowSizes :
        Configured("http2_initial_connection_window_size", sz, "-",
                   http2_initial_connection_window_size(http, sz))

SetHttp2MaxConcurrentStreams ==
    \E max \in WindowSizes :
        Configured("http2_max_concurrent_streams", max, "-",
                   http2_max_concurrent_streams(http, max))

\* Http::max_buf_size: a failed assertion unwinds the caller
SetMaxBufSize ==
    /\ panicked = "none"
    /\ \E max \in BufSizes :
          LET r == max_buf_size(http, max)
          IN  /\ http' = r.self
              /\ panicked' = r.panicked
              /\ last' = LastCall("max_buf_size", max, "-")
    /\ UNCHANGED <<wrapper, conn, fallback, io, pending, hist, serve, tasks>>

SetPipelineFlush ==
    \E enabled \in BOOLEAN :
        Configured("pipeline_flush", enabled, "-", pipeline_flush(http, enabled))

WithExecutor ==
    \E exec \in Execs :
        Configured("with_executor", exec, http.exec, with_executor(http, exec))

ServeConnection ==
    /\ panicked = "none"
    /\ wrapper = "unbound"
    /\ LET c == serve_connection(http, TheService)
       IN  /\ conn' = c.conn
           /\ fallback' = c.fallback
           /\ hist' = [hist EXCEPT
                          !.bound = Some(http),
                          !.h1_built = IF c.conn.tag = "A" THEN 1 ELSE 0,
                          !.h2_built = IF c.conn.tag = "B" THEN 1 ELSE 0]
    /\ wrapper' = "Connection"
    /\ last' = LastCall("serve_connection", "-", "-")
    /\ UNCHANGED <<http, io, pending, panicked, serve, tasks>>

\* Connection::with_upgrades
WithUpgrades ==
    /\ panicked = "none"
    /\ wrapper = "Connection"
    /\ wrapper' = "UpgradeableConnection"
    /\ UNCHANGED <<http, conn, fallback, io, pending, hist, last, panicked,
                   serve, tasks>>

PeerSend ==
    /\ panicked = "none"
    /\ hist.nsent < MaxSent
    /\ ~io.eof
    /\ \E b \in Tokens :
          /\ io' = [io EXCEPT !.unread = Append(io.unread, b)]
          /\ hist' = [hist EXCEPT !.nsent = hist.nsent + 1,
                                  !.first = IF hist.nsent = 0 THEN b ELSE hist.first,
                                  !.owed = Append(hist.owed, b)]
    /\ UNCHANGED <<http, wrapper, conn, fallback, pending, last, panicked,
                   serve, tasks>>

PeerClose ==
    /\ panicked = "none"
    /\ ~io.eof
    /\ io' = [io EXCEPT !.eof = TRUE]
    /\ UNCHANGED <<http, wrapper, conn, fallback, pending, hist, last, panicked,
                   serve, tasks>>

Poll ==
    /\ Live
    /\ wrapper = "Connection"
    /\ ~hist.done
    /\ \E c \in Choices : Commit("poll", ConnectionPoll(Ctx, c, MaxLoop), TRUE)
    /\ UNCHANGED <<http, wrapper>>

PollWithoutShutdown ==
    /\ Live
    /\ wrapper = "Connection"
    /\ ~hist.done
    /\ \E c \in Choices :
          Commit("poll_without_shutdown", poll_without_shutdown(Ctx, c, MaxLoop), TRUE)
    /\ UNCHANGED <<http, wrapper>>

\* Connection::without_shutdown and a poll of the future it returns.  The
\* call moves the Connection into the future: from then on only the future
\* can be polled, until into_parts takes the Connection apart.
WithoutShutdown ==
    /\ panicked = "none"
    /\ wrapper \in {"Connection", "WithoutShutdown"}
    /\ ~hist.done
    /\ \E c \in Choices :
          LET r == without_shutdown(poll_without_shutdown(Ctx, c, MaxLoop))
          IN  /\ Commit("without_shutdown", r, TRUE)
              /\ wrapper' = IF r.ret = "Some" THEN "consumed" ELSE "WithoutShutdown"
    /\ UNCHANGED http

UpgradeablePoll ==
    /\ Live
    /\ wrapper = "UpgradeableConnection"
    /\ ~hist.done
    /\ \E c \in Choices :
          Commit("upgradeable_poll", UpgradeableConnectionPoll(Ctx, c, MaxLoop), TRUE)
    /\ UNCHANGED <<http, wrapper>>

\* Connection::graceful_shutdown and UpgradeableConnection::graceful_shutdown,
\* which can be called as long as the caller holds the connection, also after
\* its poll has returned Ready
GracefulShutdown ==
    /\ Live
    /\ Commit("graceful_shutdown",
              graceful_shutdown([Ctx EXCEPT !.hist.gs =
                  IF hist.gs = "no" THEN GsPhase(conn) ELSE hist.gs]),
              FALSE)
    /\ UNCHANGED <<http, wrapper>>

\* Connection::try_into_parts takes self: whatever it returns, the caller no
\* longer holds the Connection
TryIntoParts ==
    /\ Live
    /\ wrapper = "Connection"
    /\ Commit("try_into_parts", try_into_parts(Ctx), FALSE)
    /\ wrapper' = "consumed"
    /\ UNCHANGED http

\* Connection::into_parts takes self and hands it to try_into_parts: the
\* Connection is gone also when the call panics
IntoParts ==
    /\ Live
    /\ wrapper = "Connection"
    /\ Commit("into_parts", into_parts(Ctx), FALSE)
    /\ wrapper' = "consumed"
    /\ UNCHANGED http

\* the configuration is set up before the connection is bound
Next ==
    \/ wrapper = "unbound" /\ SetHttp1Only
    \/ wrapper = "unbound" /\ SetHttp2Only
    \/ wrapper = "unbound" /\ SetKeepAlive
    \/ ServeConnection
    \/ WithUpgrades
    \/ PeerSend
    \/ PeerClose
    \/ Poll
    \/ PollWithoutShutdown
    \/ WithoutShutdown
    \/ UpgradeablePoll
    \/ GracefulShutdown
    \/ TryIntoParts
    \/ IntoParts

Spec == Init /\ [][Next]_vars

\* The configuration alone: every builder method, in any order, then the bind
NextCfg ==
    \/ wrapper = "unbound" /\ SetHttp1Only
    \/ wrapper = "unbound" /\ SetHttp2Only
    \/ wrapper = "unbound" /\ SetKeepAlive
    \/ wrapper = "unbound" /\ SetHttp1HalfClose
    \/ wrapper = "unbound" /\ SetHttp1Writev
    \/ wrapper = "unbound" /\ SetHttp2InitialStreamWindowSize
    \/ wrapper = "unbound" /\ SetHttp2InitialConnectionWindowSize
    \/ wrapper = "unbound" /\ SetHttp2MaxConcurrentStreams
    \/ wrapper = "unbound" /\ SetMaxBufSize
    \/ wrapper = "unbound" /\ SetPipelineFlush
    \/ wrapper = "unbound" /\ WithExecutor
    \/ ServeConnection

SpecCfg == Init /\ [][NextCfg]_vars

\* The caller keeps the Http value after serve_connection(&self, ..) and may
\* go on calling its builder methods; here it changes the protocol mode or
\* the h2 settings once more after the bind, at any point of the connection's
\* life.
Rebuild == wrapper = "unbound" \/ (hist.bound = Some(http) /\ ~hist.done)

NextLate ==
    \/ Rebuild /\ SetHttp1Only
    \/ Rebuild /\ SetHttp2Only
    \/ Rebuild /\ SetHttp2MaxConcurrentStreams
    \/ ServeConnection
    \/ PeerSend
    \/ PeerClose
    \/ Poll
    \/ GracefulShutdown

SpecLate == Init /\ [][NextLate]_vars

\* Http::serve_incoming
ServeIncoming ==
    /\ panicked = "none"
    /\ serve.state = "none"
    /\ serve' = serve_incoming(http)
    /\ last' = LastCall("serve_incoming", "-", "-")
    /\ UNCHANGED <<http, wrapper, conn, fallback, io, pending, hist, panicked, tasks>>

\* Serve::spawn_all, which the Server calls on the Serve it has just bound
SpawnAllNew ==
    /\ panicked = "none"
    /\ serve.state = "Serve"
    /\ serve.yielded = <<>>
    /\ ~serve.ended
    /\ serve' = spawn_all(serve)
    /\ last' = LastCall("spawn_all", "-", "-")
    /\ UNCHANGED <<http, wrapper, conn, fallback, io, pending, hist, panicked, tasks>>

\* what the collaborators can do in one iteration once room more items may be
\* yielded
StepChoices(room) ==
    {c \in [ready : ReadyOutcomes, inc : IncomingOutcomes, exec : {"Ok", "Err"}] :
        /\ c.exec = "Err" => (c.ready = "Ok" /\ c.inc = "Io")
        /\ room <= 0 => (c.ready # "Err" /\ c.inc \in {"Pending", "End"})}

\* the record of a call on Serve, SpawnAll or one of the held futures
ServeCall(op, arg, ret, evs) ==
    [op |-> op, arg |-> arg, ret |-> ret, evs |-> evs, before |-> "-",
     parts |-> NoParts]

\* <Serve as Stream>::poll_next, called by the owner of the stream
ServePollNext ==
    /\ panicked = "none"
    /\ serve.state = "Serve"
    /\ ~serve.ended
    /\ \E c \in StepChoices(MaxItems - Len(serve.yielded)) :
          /\ c.exec = "Ok"
          /\ LET r == Serve_poll_next(SCtx, c)
             IN  /\ serve' = r.serve
                 /\ tasks' = r.tasks
                 /\ last' = ServeCall("poll_next", "-", r.ret, r.evs)
    /\ UNCHANGED <<http, wrapper, conn, fallback, io, pending, hist, panicked>>

\* SpawnAll::poll_watch, called by the Server future until it returns Ready
PollWatch ==
    /\ panicked = "none"
    /\ serve.state = "SpawnAll"
    /\ ~serve.done
    /\ \E k \in 0..(MaxItems - Len(serve.yielded)) :
       \E t \in StepChoices(MaxItems - Len(serve.yielded) - k) \ {Spawned} :
          LET r == SpawnAllPollWatch(SCtx, k, t)
          IN  /\ serve' = [r.serve EXCEPT !.done = (r.ret # "Pending")]
              /\ tasks' = r.tasks
              /\ last' = ServeCall("poll_watch", "-", r.ret, r.evs)
    /\ UNCHANGED <<http, wrapper, conn, fallback, io, pending, hist, panicked>>

\* <Connecting as Future>::poll, called by the owner of the stream on a
\* Connecting it was given
ConnectingPollByCaller ==
    /\ panicked = "none"
    /\ \E i \in 1..Len(tasks) : \E f \in ReadyOutcomes :
          /\ tasks[i].owner = "stream"
          /\ ~tasks[i].done
          /\ LET r == ConnectingPoll(tasks[i].connecting, f)
             IN  /\ tasks' = [tasks EXCEPT ![i] =
                                 [@ EXCEPT !.connecting = r.connecting,
                                           !.conn = r.conn,
                                           !.done = (r.ret # "Pending"),
                                           !.out = IF r.ret = "Pending" THEN "-"
                                                   ELSE r.ret]]
                 /\ panicked' = IF r.ret = "Panic" THEN "polled after complete"
                                ELSE panicked
                 /\ last' = ServeCall("connecting_poll", i, r.ret, <<>>)
    /\ UNCHANGED <<http, wrapper, conn, fallback, io, pending, hist, serve>>

\* NewSvcTask::poll, called by the executor the task was spawned on
TaskPoll ==
    /\ panicked = "none"
    /\ \E i \in 1..Len(tasks) : \E f \in ReadyOutcomes : \E w \in ReadyOutcomes :
          /\ tasks[i].owner = "task"
          /\ ~tasks[i].done
          /\ LET t == NewSvcTaskPoll(tasks[i], f, w)
             IN  /\ tasks' = [tasks EXCEPT ![i] = t]
                 /\ panicked' = IF t.out = "Panic" THEN "polled after complete"
                                ELSE panicked
                 /\ last' = ServeCall("task_poll", i,
                                      IF t.done THEN "()" ELSE "Pending", <<>>)
    /\ UNCHANGED <<http, wrapper, conn, fallback, io, pending, hist, serve>>

\* The configuration is set up, serve_incoming binds a clone of it to an
\* incoming stream and a service factory; the Serve is polled as a stream, or
\* by SpawnAll.  The caller keeps its Http and may go on changing it.
NextServe ==
    \/ SetHttp2Only
    \/ ServeIncoming
    \/ SpawnAllNew
    \/ ServePollNext
    \/ PollWatch
    \/ ConnectingPollByCaller
    \/ TaskPoll

SpecServe == Init /\ [][NextServe]_vars

----------------------------------------------------------------------------
(* Properties *)

PollOps == {"poll", "poll_without_shutdown", "without_shutdown", "upgradeable_poll"}

\* the last call polled driver ev and got res from it
HasEv(ev, res) ==
    \E i \in 1..Len(last.evs) : last.evs[i] = [ev |-> ev, res |-> res]

Bound == wrapper # "unbound"

\* C1: when Connection::poll is called with fallback ToHttp2 and the h1 driver
\* active, and the h1 driver's poll returns Parse(VersionH2), the call does not
\* return that error: it runs upgrade_h2, polls the h2 driver now in the slot
\* in the same call, and returns the h2 driver's result.
C1_FallbackReturnsH2Result ==
    (/\ last.op = "poll"
     /\ last.before = "A"
     /\ fallback.tag = "ToHttp2"
     /\ last.evs # <<>>
     /\ last.evs[1] = [ev |-> "h1.poll", res |-> "VersionH2"])
    => /\ Len(last.evs) = 3
       /\ last.evs[2].ev = "upgrade_h2"
       /\ last.evs[3].ev = "h2.poll"
       /\ last.ret = PollRetOf(last.evs[3].res)
       /\ last.ret \in {"Pending", "Ok", "H2"}
       /\ conn.tag = "B"
       /\ panicked = "none"

C1_Witness ==
    /\ last.op = "poll"
    /\ fallback.tag = "ToHttp2"
    /\ Len(last.evs) = 3
    /\ last.evs[1] = [ev |-> "h1.poll", res |-> "VersionH2"]
    /\ last.evs[3] = [ev |-> "h2.poll", res |-> "Shutdown"]
    /\ last.ret = "Ok"

\* at most one transition; in Fallback mode with the preface sent first, the
\* h1 driver is still there only while it has seen nothing
C2_Inv ==
    /\ hist.transitions <= 1
    /\ (Bound /\ fallback.tag = "ToHttp2" /\ hist.first = "P")
       => /\ conn.tag = "A" => (conn.h1.read_buf = <<>> /\ hist.transitions = 0)
          /\ conn.tag = "B" => hist.transitions = 1
          /\ conn.tag \in {"A", "B"}

\* a step from a state with the h2 driver in the slot
C2_Step ==
    conn.tag = "B"
    => /\ conn'.tag # "A"
       /\ hist'.transitions = hist.transitions
       /\ hist'.h1_built = hist.h1_built
       /\ hist'.h2_built = hist.h2_built

\* C2: the h1 -> h2 transition happens at most once on a connection; on a
\* connection built in Fallback mode whose peer sent the preface first it has
\* happened exactly once as soon as the h1 driver has seen a byte (the h2
\* driver is then the active one); and once the h2 driver is in the slot no
\* step puts an h1 driver there, builds a driver or runs the transition again.
C2_TransitionOnce == []C2_Inv /\ [][C2_Step]_vars

C2_Witness ==
    /\ fallback.tag = "ToHttp2"
    /\ hist.first = "P"
    /\ hist.transitions = 1
    /\ conn.tag = "B"
    /\ hist.done
    /\ last.op = "upgradeable_poll"

\* C3: after an h1 -> h2 transition, what the h2 driver has read, followed by
\* what is left of the Rewind's pre-read, followed by what is still unread in
\* the transport, is exactly what the peer sent and h1 did not consume: the
\* bytes h1 had buffered come first, none lost, none twice, in order.  The
\* pre-read was set once, by the transition.
C3_NoByteLostOnTransition ==
    (conn.tag = "B" /\ hist.transitions >= 1)
    => /\ conn.h2.got \o conn.h2.rw.pre \o io.unread = hist.owed
       /\ conn.h2.rw.rewinds = 1

C3_Witness ==
    /\ conn.tag = "B"
    /\ hist.transitions = 1
    /\ conn.h2.got = <<"P">>
    /\ conn.h2.rw.pre = <<"D">>
    /\ io.unread = <<>>
    /\ hist.nsent = 2

\* C4: on a connection built in H1Only mode no transition is performed and no
\* h2 driver is constructed; a poll in which the h1 driver reports the
\* preface returns that parse error, and when the peer sent the preface first
\* a poll that returns Ready returns an error (the parse error, or the
\* transport's).
C4_H1OnlyNoTransition ==
    (Bound /\ http.mode = "H1Only")
    => /\ fallback = Http1Only
       /\ hist.transitions = 0
       /\ hist.h2_built = 0
       /\ conn.tag \in {"A", "None"}
       /\ (last.op \in PollOps /\ last.evs # <<>> /\ last.evs[1].res = "VersionH2")
          => (last.ret = "VersionH2" /\ Len(last.evs) = 1 /\ panicked = "none")
       /\ (last.op \in PollOps /\ hist.first = "P" /\ last.ret # "Pending")
          => last.ret \in {"VersionH2", "Io"}

C4_Witness ==
    /\ http.mode = "H1Only"
    /\ hist.first = "P"
    /\ last.op = "poll"
    /\ last.ret = "VersionH2"
    /\ conn.tag = "A"
    /\ conn.h1.read_buf = <<"P", "D">>

\* C5: on a connection built in H2Only mode no h1 driver is ever constructed:
\* the slot holds an h2 driver whose Rewind was never given a pre-read, and no
\* transition occurs.
C5_H2OnlyNeverH1 ==
    (Bound /\ http.mode = "H2Only")
    => /\ hist.h1_built = 0
       /\ hist.h2_built = 1
       /\ hist.transitions = 0
       /\ conn.tag = "B"
       /\ conn.h2.rw.pre = <<>>
       /\ conn.h2.rw.rewinds = 0
       /\ fallback = Http1Only
       /\ \A i \in 1..Len(last.evs) : last.evs[i].ev = "h2.poll"

C5_Witness ==
    /\ http.mode = "H2Only"
    /\ conn.tag = "B"
    /\ conn.h2.got = <<"P", "D">>
    /\ last.op = "upgradeable_poll"
    /\ last.ret = "Pending"

\* C6: when UpgradeableConnection::poll gets Upgrade(pending) from the h1
\* driver it takes the driver out of the slot, fulfills the pending upgrade
\* once with an Upgraded handle over the connection's io and the driver's
\* unread bytes, and returns Ok(());
\* the pending upgrade is not told it is manual.
C6_SurrenderFulfillsOnce ==
    /\ (last.op = "upgradeable_poll" /\ HasEv("h1.poll", "Upgrade"))
       => /\ conn = None
          /\ last.ret = "Ok"
          /\ panicked = "none"
          /\ pending.fulfilled = 1
          /\ pending.manual = 0
          /\ pending.upgraded.io = TheIo
          /\ pending.upgraded.buf \o io.unread = hist.owed
          /\ HasEv("fulfill", "-")
    /\ pending.fulfilled <= 1
    /\ pending.fulfilled = 1 => pending.manual = 0

C6_Witness ==
    /\ last.op = "upgradeable_poll"
    /\ HasEv("h1.poll", "Upgrade")
    /\ pending.fulfilled = 1
    /\ pending.upgraded.buf = <<"D">>
    /\ last.ret = "Ok"

\* C7: whenever the h1 path hands its transport over (Parts from
\* try_into_parts / into_parts, Upgraded from the surrender), the handed-over
\* buffer followed by what is still to be read from the io is exactly what
\* the peer sent after the last request h1 consumed: none lost, none twice,
\* in order.
C7_HandoverKeepsBytes ==
    /\ pending.fulfilled >= 1
       => pending.upgraded.buf \o io.unread = hist.owed
    /\ (wrapper = "consumed" /\ last.ret = "Some")
       => last.parts.read_buf \o io.unread = hist.owed

C7_Witness ==
    /\ wrapper = "consumed"
    /\ last.op = "into_parts"
    /\ last.ret = "Some"
    /\ pending.manual = 1
    /\ last.parts.read_buf = <<"D">>
    /\ hist.nsent = 2

\* C8: when Connection::poll (the plain future) gets Upgrade(pending) from its
\* driver it does not fulfill the pending upgrade: it tells it once that it is
\* manual, returns Ok(()), and leaves the h1 driver in the slot, so that
\* into_parts called next returns Parts.
C8_PlainPollNotifiesManual ==
    /\ (last.op = "poll" /\ HasEv("h1.poll", "Upgrade"))
       => /\ pending.fulfilled = 0
          /\ pending.manual = 1
          /\ last.ret = "Ok"
          /\ conn.tag = "A"
          /\ panicked = "none"
          /\ into_parts(Ctx).ret = "Some"
          /\ into_parts(Ctx).panicked = "none"
    /\ wrapper \in {"Connection", "WithoutShutdown", "consumed"}
       => pending.fulfilled = 0

C8_Witness ==
    /\ last.op = "poll"
    /\ HasEv("h1.poll", "Upgrade")
    /\ pending.manual = 1
    /\ conn.tag = "A"
    /\ conn.h1.read_buf = <<"D">>

\* C9: try_into_parts returns Some(Parts) (the io, the h1 driver's unread
\* bytes, the connection's service) exactly when the driver in the slot is h1
\* and None when it is h2; into_parts returns Parts in the first case and
\* panics exactly in the second, also after a Fallback connection has made
\* the transition.
C9_IntoParts ==
    /\ last.op = "try_into_parts"
       => /\ last.ret = "Some" <=> last.before = "A"
          /\ last.ret = "None" <=> last.before = "B"
          /\ panicked = "none"
    /\ last.op = "into_parts"
       => /\ last.ret = "Some" <=> last.before = "A"
          /\ panicked = "h2 cannot into_inner" <=> last.before = "B"
          /\ panicked = "none" <=> last.before = "A"
    /\ (last.op \in {"try_into_parts", "into_parts"} /\ last.ret = "Some")
       => /\ last.parts.io = TheIo
          /\ last.parts.service = TheService
          /\ last.parts.read_buf = conn.h1.read_buf
    /\ (last.op \in {"try_into_parts", "into_parts"} /\ last.ret # "Some")
       => last.parts = NoParts

C9_Witness ==
    /\ last.op = "into_parts"
    /\ last.before = "B"
    /\ panicked = "h2 cannot into_inner"
    /\ hist.transitions = 1
    /\ http.mode = "Fallback"

\* C10: poll_without_shutdown called with the h2 driver in the slot panics
\* without polling the h2 driver; called with the h1 driver in the slot it
\* polls that driver with its poll_without_shutdown, never with poll, and
\* unless the driver reports the preface under fallback it returns the
\* driver's result.
C10_PollWithoutShutdown ==
    last.op = "poll_without_shutdown"
    => /\ last.before = "B"
          => /\ panicked = "not yet implemented: Connection::poll_without_shutdown h2"
             /\ last.evs = <<>>
             /\ last.ret = "Panic"
       /\ last.before = "A"
          => /\ last.evs # <<>>
             /\ last.evs[1].ev = "h1.poll_without_shutdown"
             /\ \A i \in 1..Len(last.evs) : last.evs[i].ev \notin {"h1.poll", "h2.poll"}
             /\ ~(last.evs[1].res = "VersionH2" /\ fallback.tag = "ToHttp2")
                => (last.ret = last.evs[1].res /\ panicked = "none")
       /\ last.before \in {"A", "B"}

C10_Witness ==
    /\ last.op = "poll_without_shutdown"
    /\ last.before = "B"
    /\ panicked = "not yet implemented: Connection::poll_without_shutdown h2"
    /\ http.mode = "H2Only"
    /\ io.unread = <<"P">>

----------------------------------------------------------------------------
(* Graceful shutdown *)

\* C11: graceful_shutdown acts only on the driver in the slot: on h1 it
\* disables keep-alive, on h2 it starts the engine's graceful shutdown; it does
\* not change which driver is in the slot.  On the h1 path, after the call the
\* connection reads no further request: the exchange in flight completes and
\* the future then resolves Ok(()) with the driver closed.
C11_GracefulShutdown ==
    /\ (last.op = "graceful_shutdown" /\ last.before \in {"A", "B"})
       => /\ conn.tag = last.before
          /\ panicked = "none"
          /\ conn.tag = "A" => conn.h1.ka = "Disabled"
          /\ conn.tag = "B" => conn.h2.graceful
    /\ (hist.gs = "h2" /\ conn.tag = "B") => conn.h2.graceful
    /\ hist.gs \in GsOnH1 => hist.after_gs = 0
    /\ (hist.gs \in GsOnH1 /\ conn.tag = "A")
       => /\ conn.h1.ka = "Disabled"
          /\ (last.op \in PollOps /\ last.ret = "Ok") => conn.h1.closed

\* what does hold: the same, except that an h1 driver which had read no
\* request when graceful_shutdown was called still reads and serves one.  (A
\* call that finds no driver, after an UpgradeableConnection has surrendered
\* its io, panics on the empty slot.)
C11_ExceptFresh ==
    /\ (last.op = "graceful_shutdown" /\ last.before \in {"A", "B"})
       => /\ conn.tag = last.before
          /\ panicked = "none"
          /\ conn.tag = "A" => conn.h1.ka = "Disabled"
          /\ conn.tag = "B" => conn.h2.graceful
    /\ (hist.gs = "h2" /\ conn.tag = "B") => conn.h2.graceful
    /\ hist.gs \in GsOnH1 => hist.after_gs <= (IF hist.gs = "fresh" THEN 1 ELSE 0)
    /\ (hist.gs \in GsOnH1 /\ conn.tag = "A")
       => /\ conn.h1.ka = "Disabled"
          /\ (conn.h1.inflight = "none" /\ (hist.gs # "fresh" \/ hist.after_gs = 1))
             => conn.h1.closed
          /\ (last.op \in PollOps /\ last.ret = "Ok") => conn.h1.closed
    /\ (last.op = "graceful_shutdown" /\ last.before = "None")
       => /\ panicked = "called Option::unwrap() on a None value"
          /\ wrapper = "UpgradeableConnection"
          /\ pending.fulfilled = 1

\* a request read after graceful_shutdown
C11_ReadAfterShutdown ==
    /\ hist.gs = "fresh"
    /\ hist.after_gs = 1
    /\ conn.tag = "A"
    /\ conn.h1.closed
    /\ last.ret = "Ok"

----------------------------------------------------------------------------
(* The driver slot and the errors of the drivers *)

\* C13: for a plain Connection, held by the caller or by the future of
\* without_shutdown, the slot is empty only inside the transition step:
\* between calls it holds exactly one driver, so graceful_shutdown,
\* try_into_parts and a further poll never find an empty slot.
C13_SlotHeldBetweenCalls ==
    wrapper \in {"Connection", "WithoutShutdown"}
    => /\ panicked # "called Option::unwrap() on a None value"
       /\ panicked = "none"
          => /\ conn.tag \in {"A", "B"}
             /\ graceful_shutdown(Ctx).panicked = "none"
             /\ try_into_parts(Ctx).panicked = "none"
             /\ \A c \in Choices : ConnectionPoll(Ctx, c, MaxLoop).ret # "Panic"

C13_Witness ==
    /\ wrapper = "Connection"
    /\ hist.transitions = 1
    /\ last.op = "graceful_shutdown"
    /\ last.before = "B"
    /\ conn.tag = "B"
    /\ conn.h2.graceful
    /\ panicked = "none"

\* C14: every driver error other than the h2 preface seen by h1 under
\* Fallback::ToHttp2 is returned unchanged by the poll in which the driver
\* raised it, and the driver that raised it stays in the slot: other parse
\* errors and transport errors from h1 in any mode, the h2 preface when the
\* fallback is Http1Only, and every error from h2.
C14_ErrorsReturnedUnchanged ==
    last.op \in {"poll", "upgradeable_poll"}
    => \A i \in 1..Len(last.evs) :
          LET e == last.evs[i]
          IN  ( /\ e.ev \in {"h1.poll", "h2.poll"}
                /\ IsErr(e.res)
                /\ ~(e.ev = "h1.poll" /\ e.res = "VersionH2"
                        /\ fallback.tag = "ToHttp2") )
              => /\ i = Len(last.evs)
                 /\ last.ret = e.res
                 /\ conn.tag = (IF e.ev = "h1.poll" THEN "A" ELSE "B")
                 /\ e.ev = "h1.poll" => (last.before = "A" /\ i = 1)
                 /\ panicked = "none"

C14_Witness ==
    /\ last.op = "upgradeable_poll"
    /\ last.ret = "ParseOther"
    /\ HasEv("h1.poll", "ParseOther")
    /\ fallback.tag = "ToHttp2"
    /\ conn.tag = "A"
    /\ hist.transitions = 0

----------------------------------------------------------------------------
(* The configuration *)

\* C15: the protocol mode is decided by the last call of http1_only or
\* http2_only alone: http1_only(true) gives H1Only, http2_only(true) gives
\* H2Only, either with false gives Fallback; a new configuration is in
\* Fallback; no other call changes the mode.
C15_ModeInv ==
    /\ last.op = "none" => http.mode = "Fallback"
    /\ last.op = "http1_only"
       => http.mode = (IF last.arg THEN "H1Only" ELSE "Fallback")
    /\ last.op = "http2_only"
       => http.mode = (IF last.arg THEN "H2Only" ELSE "Fallback")

C15_ModeStep ==
    last'.op \notin {"http1_only", "http2_only"} => http'.mode = http.mode

C15_ModeByLastCall == []C15_ModeInv /\ [][C15_ModeStep]_vars

\* http1_only(true) followed by http2_only(true) has left H2Only
C15_Witness ==
    /\ last.op = "http2_only"
    /\ last.arg = TRUE
    /\ last.before = "H1Only"
    /\ http.mode = "H2Only"

\* C16: max_buf_size(n) panics for n below 8192 (8191 panics) and stores
\* Some(n) for n >= 8192; the configuration's max_buf_size is None or at
\* least 8192, and so is what serve_connection hands to the h1 driver.
C16_MaxBufSize ==
    /\ http.max_buf_size # NoneOpt
       => http.max_buf_size[1] >= 8192
    /\ (conn.tag = "A" /\ conn.h1.max_buf_size # NoneOpt)
       => conn.h1.max_buf_size[1] >= 8192
    /\ conn.tag = "A" => conn.h1.max_buf_size = http.max_buf_size
    /\ last.op = "max_buf_size"
       => /\ last.arg < 8192 <=> panicked # "none"
          /\ last.arg >= 8192 => http.max_buf_size = Some(last.arg)
          /\ last.arg = 8191 => panicked # "none"
          /\ last.arg = 8192 => panicked = "none"

\* a connection bound after max_buf_size(8192)
C16_Witness ==
    /\ conn.tag = "A"
    /\ conn.h1.max_buf_size = Some(8192)
    /\ http.max_buf_size = Some(8192)
    /\ panicked = "none"

\* C17: with_executor replaces the executor and nothing else: protocol mode,
\* keep-alive, half-close, writev, pipeline flush, max buffer size and h2
\* settings of the result are those of the original; and with_executor(e)
\* followed by with_executor(e2) gives what with_executor(e2) gives.
C17_Idempotent ==
    \A e1 \in Execs : \A e2 \in Execs :
        with_executor(with_executor(http, e1), e2) = with_executor(http, e2)

C17_Step ==
    last'.op = "with_executor"
    => /\ http'.exec = last'.arg
       /\ http'.mode = http.mode
       /\ http'.keep_alive = http.keep_alive
       /\ http'.h1_half_close = http.h1_half_close
       /\ http'.h1_writev = http.h1_writev
       /\ http'.pipeline_flush = http.pipeline_flush
       /\ http'.max_buf_size = http.max_buf_size
       /\ http'.h2_builder = http.h2_builder
       /\ DOMAIN http' = DOMAIN http

C17_WithExecutor == []C17_Idempotent /\ [][C17_Step]_vars

\* with_executor(E2) after with_executor(E1) on a configuration whose other
\* fields are not the defaults
C17_Witness ==
    /\ last.op = "with_executor"
    /\ last.arg = "E2"
    /\ last.before = "E1"
    /\ http.exec = "E2"
    /\ http.mode = "H2Only"
    /\ ~http.keep_alive
    /\ ~http.h1_half_close
    /\ ~http.h1_writev
    /\ http.pipeline_flush
    /\ http.max_buf_size = Some(8193)
    /\ http.h2_builder.max_concurrent_streams = Some(1)

----------------------------------------------------------------------------
(* What serve_connection fixes *)

\* C12: serve_connection puts the h1 driver in the slot when the mode is
\* H1Only or Fallback and the h2 driver when it is H2Only; the fallback is
\* ToHttp2, holding the h2 settings and the executor the configuration had at
\* that moment, exactly when the mode was Fallback, and Http1Only otherwise;
\* the fallback never changes afterwards, whatever is done to the
\* configuration or to the connection.
C12_Inv ==
    /\ hist.bound = NoneOpt <=> wrapper = "unbound"
    /\ hist.bound # NoneOpt
       => LET cfg == hist.bound[1]
          IN  /\ fallback = (IF cfg.mode = "Fallback"
                             THEN ToHttp2(cfg.h2_builder, cfg.exec)
                             ELSE Http1Only)
              /\ (hist.transitions = 0 /\ conn.tag \in {"A", "B"})
                 => conn.tag = (IF cfg.mode = "H2Only" THEN "B" ELSE "A")
              /\ last.op = "serve_connection"
                 => /\ hist.transitions = 0
                    /\ conn.tag \in {"A", "B"}
              /\ conn.tag = "B"
                 => /\ conn.h2.builder = cfg.h2_builder
                    /\ conn.h2.exec = cfg.exec

C12_Step == wrapper # "unbound" => fallback' = fallback

C12_FallbackFixedAtBind == []C12_Inv /\ [][C12_Step]_vars

\* bound in Fallback mode with default h2 settings; then the configuration was
\* given max_concurrent_streams; then a poll made the transition to h2
C12_Witness ==
    /\ hist.bound # NoneOpt
    /\ hist.bound[1].mode = "Fallback"
    /\ hist.bound[1].h2_builder.max_concurrent_streams = NoneOpt
    /\ http.h2_builder.max_concurrent_streams = Some(1)
    /\ last.op = "poll"
    /\ HasEv("upgrade_h2", "-")
    /\ conn.tag = "B"
    /\ conn.h2.builder.max_concurrent_streams = NoneOpt
    /\ fallback.tag = "ToHttp2"

----------------------------------------------------------------------------
(* The Serve stream and the tasks spawned from it *)

\* the last call polled ev, whatever it got
Polled(ev) == \E i \in 1..Len(last.evs) : last.evs[i].ev = ev

\* C18: a Serve whose factory never becomes ready never yields a Connecting:
\* a poll_next that finds the factory not ready returns Pending without
\* polling the incoming stream, so while poll_ready_ref has never returned
\* Ok(()) the incoming stream has not been polled and nothing was accepted.
C18_NotReadyNoConnecting ==
    /\ (last.op \in {"poll_next", "poll_watch"}
            /\ HasEv("poll_ready_ref", "Pending"))
       => /\ last.ret = "Pending"
          /\ last.evs[Len(last.evs)] = [ev |-> "poll_ready_ref", res |-> "Pending"]
    /\ (last.op = "poll_next" /\ HasEv("poll_ready_ref", "Pending"))
       => ~Polled("incoming.poll_next")
    /\ ~serve.ever_ready
       => /\ ~serve.inc_polled
          /\ serve.accepted = 0
          /\ tasks = <<>>
          /\ ~serve.ended
          /\ \A i \in 1..Len(serve.yielded) : serve.yielded[i] = "UserMakeService"
          /\ last.op \in {"poll_next", "poll_watch"}
             => last.ret \in {"Pending", "UserMakeService"}

C18_Witness ==
    /\ last.op = "poll_next"
    /\ last.ret = "Pending"
    /\ last.evs = << [ev |-> "poll_ready_ref", res |-> "Pending"] >>
    /\ ~serve.ever_ready
    /\ serve.yielded = <<>>

\* C19: poll_next surfaces failures as items of distinct classes and stays
\* pollable: an error of the factory's readiness is yielded as a
\* UserMakeService error without polling the incoming stream, an error of the
\* accept as an Accept error; a later poll_next that accepts a stream yields
\* its Connecting; the stream ends only when the incoming stream ends.
C19_ErrorsAsItems ==
    /\ last.op = "poll_next"
       => /\ HasEv("poll_ready_ref", "Err")
             => /\ last.ret = "UserMakeService"
                /\ ~Polled("incoming.poll_next")
                /\ serve.yielded[Len(serve.yielded)] = "UserMakeService"
          /\ HasEv("incoming.poll_next", "Err")
             => /\ last.ret = "Accept"
                /\ serve.yielded[Len(serve.yielded)] = "Accept"
          /\ HasEv("incoming.poll_next", "Io")
             => /\ last.ret = "Connecting"
                /\ serve.yielded[Len(serve.yielded)] = "Connecting"
                /\ tasks # <<>>
                /\ tasks[Len(tasks)].connecting
                       = ConnectingNew(serve.accepted, serve.protocol)
          /\ last.ret \in {"UserMakeService", "Accept", "Connecting"}
             => /\ serve.state = "Serve"
                /\ ~serve.ended
          /\ last.ret = "None" <=> HasEv("incoming.poll_next", "End")
          /\ last.ret = "None" <=> serve.ended
    /\ serve.ended => serve.inc_polled

\* after a factory error and an accept error, a Connecting
C19_Witness ==
    /\ last.op = "poll_next"
    /\ last.ret = "Connecting"
    /\ serve.yielded = <<"UserMakeService", "Accept", "Connecting">>
    /\ Len(tasks) = 1

\* C20 as the specification states it: when the factory returns an error for
\* an accepted stream, that stream comes out of the Serve stream as a
\* UserMakeService error, and the streams before and after it are served.
C20_FactoryErrorYielded ==
    \A i \in 1..Len(tasks) :
        tasks[i].connecting.future = "Err"
        => serve.yielded[tasks[i].item] = "UserMakeService"

\* C20, amended: every accepted stream comes out of the Serve stream as a
\* Connecting; when the factory returns an error for it, the error comes out
\* of that Connecting when it is polled: the caller gets the factory's error,
\* and a NewSvcTask logs it as a UserMakeService error and finishes, without a
\* Connection and without calling the watcher.  The Serve stream and the
\* other streams are not affected: those whose factory succeeds get their
\* Connection from the stream's protocol, and the loop goes on.
C20_Inv ==
    \A i \in 1..Len(tasks) :
        LET t == tasks[i]
        IN  /\ serve.yielded[t.item] = "Connecting"
            /\ t.connecting.future = "Err"
               => /\ t.done
                  /\ t.conn = NoneOpt
                  /\ ~t.watched
                  /\ t.state = "Connecting"
                  /\ t.owner = "task"
                     => (t.log = "connecting error: UserMakeService" /\ t.out = "()")
                  /\ t.owner = "stream" => t.out = "Err"
            /\ t.connecting.future = "Ok"
               => /\ t.conn = Some(serve_connection(serve.protocol[1], TheService))
                  /\ t.owner = "task" => (t.state = "Connected" /\ t.watched)
            /\ t.connecting.future = "unresolved"
               => (~t.done /\ t.conn = NoneOpt /\ t.state = "Connecting")

C20_Step ==
    last'.op \in {"task_poll", "connecting_poll"}
    => /\ serve' = serve
       /\ Len(tasks') = Len(tasks)
       /\ \A j \in 1..Len(tasks) : j # last'.arg => tasks'[j] = tasks[j]

C20_FactoryErrorInTask == []C20_Inv /\ [][C20_Step]_vars

\* three streams accepted by SpawnAll: the first served to its end, the
\* second's factory failed, the third served to its end
C20_Witness ==
    /\ serve.state = "SpawnAll"
    /\ ~serve.done
    /\ Len(tasks) = 3
    /\ tasks[1].state = "Connected" /\ tasks[1].done /\ tasks[1].log = "-"
    /\ tasks[2].connecting.future = "Err"
    /\ tasks[2].log = "connecting error: UserMakeService"
    /\ tasks[3].state = "Connected" /\ tasks[3].done /\ tasks[3].log = "-"
    /\ serve.yielded = <<"Connecting", "Connecting", "Connecting">>

\* C21: in SpawnAll::poll_watch an error of one connection is only logged.
\* A NewSvcTask whose Connection resolves to Err, or whose service
\* construction fails, logs it and completes with (): no poll of a task
\* touches the Serve stream or another task, so poll_watch goes on accepting
\* and spawning.  An error of the accept or of the factory's readiness is the
\* Err that poll_watch returns, and poll_watch returns Ok(()) only when the
\* incoming stream has ended.
C21_Inv ==
    /\ \A i \in 1..Len(tasks) :
          tasks[i].owner = "task"
          => /\ tasks[i].out \in {"-", "()"}
             /\ tasks[i].done <=> tasks[i].out = "()"
             /\ tasks[i].log \in {"-", "connection error",
                                  "connecting error: UserMakeService"}
             /\ tasks[i].log # "-" => tasks[i].done
    /\ last.op = "task_poll" => last.ret \in {"Pending", "()"}
    /\ last.op = "poll_watch"
       => /\ last.ret \in {"Pending", "Ok", "Accept", "UserMakeService", "Execute"}
          /\ HasEv("incoming.poll_next", "Err") <=> last.ret = "Accept"
          /\ HasEv("poll_ready_ref", "Err") <=> last.ret = "UserMakeService"
          /\ HasEv("incoming.poll_next", "End") <=> last.ret = "Ok"
          /\ last.ret = "Ok" => serve.ended
          /\ last.ret = "Pending" <=> ~serve.done
    /\ serve.state = "SpawnAll"
       => /\ serve.ended => serve.done
          /\ \A i \in 1..Len(serve.yielded) :
                serve.yielded[i] \in {"Accept", "UserMakeService"}
                => (serve.done /\ i = Len(serve.yielded))

C21_Step ==
    /\ last'.op = "task_poll"
       => /\ serve'.done = serve.done
          /\ serve'.ended = serve.ended
          /\ serve'.accepted = serve.accepted
          /\ panicked' = "none"
    /\ last'.op = "poll_watch"
       => /\ Len(tasks') >= Len(tasks)
          /\ SubSeq(tasks', 1, Len(tasks)) = tasks
          /\ \A i \in (Len(tasks) + 1)..Len(tasks') :
                tasks'[i] = Held("task", tasks'[i].item,
                                 ConnectingNew(tasks'[i].connecting.io[1],
                                               serve.protocol))

C21_ConnectionErrorsLogged == []C21_Inv /\ [][C21_Step]_vars

\* one connection failed, the service construction of another failed, and a
\* later poll_watch accepts a third stream and spawns its task
C21_Witness ==
    /\ last.op = "poll_watch"
    /\ HasEv("execute_new_svc", "Ok")
    /\ Len(tasks) = 3
    /\ tasks[1].done /\ tasks[1].log = "connection error" /\ tasks[1].out = "()"
    /\ tasks[2].done /\ tasks[2].log = "connecting error: UserMakeService"
    /\ tasks[3] = Held("task", 3, ConnectingNew(3, serve.protocol))

\* how many times the last call polled ev
CountEv(ev) == Cardinality({i \in 1..Len(last.evs) : last.evs[i].ev = ev})

\* the places of the Connectings among the items yielded
ConnectingItems == {i \in 1..Len(serve.yielded) : serve.yielded[i] = "Connecting"}

\* C22: the Serve stream holds no accepted stream.  A call of poll_next polls
\* the incoming stream at most once; a stream it accepts is the next one of
\* the incoming stream and comes out of that same call as one Connecting
\* holding it, after the Connectings yielded before; a call that accepts
\* nothing yields no Connecting.  So whenever the incoming stream is polled,
\* every stream accepted before is in a Connecting the consumer has taken.
C22_Inv ==
    /\ Cardinality(ConnectingItems) = serve.accepted
    /\ serve.state = "Serve" => Len(tasks) = serve.accepted
    /\ \A i \in 1..Len(tasks) :
          /\ tasks[i].item \in ConnectingItems
          /\ tasks[i].connecting.io \in {NoneOpt, Some(i)}
          /\ \A j \in 1..Len(tasks) : i < j => tasks[i].item < tasks[j].item
    /\ last.op = "poll_next"
       => /\ CountEv("incoming.poll_next") <= 1
          /\ CountEv("make_service_ref") <= 1
          /\ last.ret = "Connecting" <=> HasEv("incoming.poll_next", "Io")
    /\ \A i \in 1..Len(last.evs) :
          last.evs[i] = [ev |-> "incoming.poll_next", res |-> "Io"]
          => /\ i < Len(last.evs)
             /\ last.evs[i + 1].ev = "make_service_ref"

C22_Step ==
    last'.op = "poll_next"
    => IF last'.ret = "Connecting"
       THEN /\ serve'.accepted = serve.accepted + 1
            /\ serve'.yielded = Append(serve.yielded, "Connecting")
            /\ tasks' = Append(tasks,
                               Held("stream", Len(serve'.yielded),
                                    ConnectingNew(serve'.accepted, serve.protocol)))
       ELSE /\ serve'.accepted = serve.accepted
            /\ tasks' = tasks

C22_NoBuffering == []C22_Inv /\ [][C22_Step]_vars

\* the second stream is accepted and yielded while the consumer still holds
\* the first Connecting unresolved, an accept error between them
C22_Witness ==
    /\ last.op = "poll_next"
    /\ last.ret = "Connecting"
    /\ serve.yielded = <<"Connecting", "Accept", "Connecting">>
    /\ serve.accepted = 2
    /\ Len(tasks) = 2
    /\ tasks[1] = Held("stream", 1, ConnectingNew(1, serve.protocol))
    /\ tasks[2] = Held("stream", 3, ConnectingNew(2, serve.protocol))

\* how far a task has come: Connecting, Connected, finished
TaskRank(t) == IF t.done THEN 2 ELSE IF t.state = "Connected" THEN 1 ELSE 0

\* C23: a NewSvcTask goes from Connecting to Connected to finished and never
\* back.  While the factory's future is unresolved there is no Connection and
\* the Connecting holds the accepted io; when it resolves Ok the io is taken
\* out of the Connecting, once, and serve_connection of the configuration the
\* Serve was given binds it into the Connection that the watcher gets, once;
\* when it resolves Err the task finishes in the Connecting state with no
\* Connection and no call of the watcher.  No task polls a Connecting that has
\* given its io away.
C23_Inv ==
    \A i \in 1..Len(tasks) :
        LET t == tasks[i]
        IN  t.owner = "task"
            => /\ t.out # "Panic"
               /\ t.connecting.protocol = serve.protocol
               /\ t.state = "Connecting"
                  => /\ t.conn = NoneOpt
                     /\ ~t.watched
                     /\ t.connecting.io # NoneOpt
                     /\ t.connecting.future \in {"unresolved", "Err"}
                     /\ t.done <=> t.connecting.future = "Err"
               /\ t.state = "Connected"
                  => /\ t.connecting.future = "Ok"
                     /\ t.connecting.io = NoneOpt
                     /\ t.watched
                     /\ t.conn = Some(serve_connection(serve.protocol[1], TheService))

C23_Step ==
    /\ \A i \in 1..Len(tasks) :
          tasks[i].owner = "task"
          => /\ i <= Len(tasks')
             /\ TaskRank(tasks'[i]) >= TaskRank(tasks[i])
             /\ tasks[i].state = "Connected"
                => /\ tasks'[i].state = "Connected"
                   /\ tasks'[i].conn = tasks[i].conn
                   /\ tasks'[i].connecting = tasks[i].connecting
             /\ tasks[i].done => tasks'[i] = tasks[i]
    /\ last'.op = "task_poll" => panicked' = "none"

C23_TaskPhases == []C23_Inv /\ [][C23_Step]_vars

\* a task in the Connected state whose Connection was built by the
\* configuration the Serve was given, which the caller has changed since
C23_Witness ==
    /\ serve.state = "SpawnAll"
    /\ Len(tasks) = 2
    /\ tasks[1].state = "Connected" /\ ~tasks[1].done /\ tasks[1].watched
    /\ tasks[1].conn = Some(serve_connection(serve.protocol[1], TheService))
    /\ tasks[1].conn # Some(serve_connection(http, TheService))
    /\ last.op = "task_poll" /\ last.arg = 1 /\ last.ret = "Pending"
    /\ tasks[2].state = "Connecting" /\ tasks[2].done

----------------------------------------------------------------------------
(* The drivers of a Connection: upgrade, rewind, shutdown, transition *)

\* the events of the last call before its i-th
EvsBefore(i) == {last.evs[j].ev : j \in 1..(i - 1)}

\* C24: an UpgradeableConnection surrenders the io only from the h1 driver.
\* The pending upgrade is fulfilled by a poll in which only the h1 driver was
\* polled and no transition was made; with the h2 driver in the slot, built
\* by serve_connection or by a transition, no result of a poll is an upgrade,
\* nothing is fulfilled or told it is manual, and the branch
\* unreachable!("Upgrade expects h1") is not executed.
C24_UpgradeOnlyOnH1 ==
    /\ panicked # "unreachable: Upgrade expects h1"
    /\ \A i \in 1..Len(last.evs) :
          /\ last.evs[i].ev = "fulfill"
             => /\ last.op = "upgradeable_poll"
                /\ last.before = "A"
                /\ i = Len(last.evs)
                /\ EvsBefore(i) = {"h1.poll"}
                /\ last.evs[i - 1] = [ev |-> "h1.poll", res |-> "Upgrade"]
          /\ last.evs[i].ev = "h2.poll" => last.evs[i].res # "Upgrade"
    /\ pending.fulfilled > 0
       => /\ pending.fulfilled = 1
          /\ wrapper = "UpgradeableConnection"
          /\ hist.h2_built = 0
          /\ hist.transitions = 0
          /\ conn.tag = "None"
    /\ hist.h2_built > 0 => (pending.fulfilled = 0 /\ pending.manual = 0)
    /\ (last.op = "upgradeable_poll" /\ (last.before = "B" \/ Polled("upgrade_h2")))
       => /\ ~Polled("fulfill")
          /\ pending = PendingNew
          /\ conn.tag = "B"

\* an UpgradeableConnection that went over to h2 is polled to its end after
\* the peer has sent the preface and an upgrade request: nothing is fulfilled
C24_Witness ==
    /\ wrapper = "UpgradeableConnection"
    /\ last.op = "upgradeable_poll"
    /\ last.before = "B"
    /\ last.ret = "Ok"
    /\ hist.transitions = 1
    /\ conn.tag = "B"
    /\ conn.h2.got = <<"P", "U">>
    /\ pending = PendingNew

\* C25: rewind is never called on a Rewind that has a pre-read.  A Rewind is
\* made empty, by serve_connection for H2Only and by each transition; the one
\* made by serve_connection is never rewound, the one made by a transition is
\* rewound once, with the bytes the h1 driver had read, before the h2 driver
\* gets it, and no step rewinds the Rewind of an h2 driver in the slot: its
\* pre-read only shrinks.
C25_Inv ==
    /\ RewindNew.pre = <<>>
    /\ CountEv("upgrade_h2") <= 1
    /\ conn.tag = "B"
       => /\ conn.h2.rw.rewinds = hist.transitions
          /\ conn.h2.rw.rewinds <= 1
          /\ conn.h2.rw.rewinds = 0
             => /\ conn.h2.rw.pre = <<>>
                /\ hist.bound # NoneOpt
                /\ hist.bound[1].mode = "H2Only"
          /\ conn.h2.rw.rewinds = 1
             => /\ hist.bound[1].mode = "Fallback"
                /\ Len(conn.h2.rw.pre) <= Len(hist.owed)
                /\ conn.h2.rw.pre
                       = SubSeq(hist.owed, Len(conn.h2.got) + 1,
                                Len(conn.h2.got) + Len(conn.h2.rw.pre))

C25_Step ==
    /\ (conn.tag = "B" /\ conn'.tag = "B")
       => /\ conn'.h2.rw.rewinds = conn.h2.rw.rewinds
          /\ Len(conn'.h2.rw.pre) <= Len(conn.h2.rw.pre)
    /\ (conn.tag = "A" /\ conn'.tag = "B")
       => /\ hist'.transitions = hist.transitions + 1
          /\ \E i \in 1..Len(last'.evs) : last'.evs[i].ev = "upgrade_h2"

C25_RewindOnFreshStream == []C25_Inv /\ [][C25_Step]_vars

\* a transition has pushed the two bytes h1 had read into the new Rewind and
\* the h2 driver has read neither yet
C25_Witness ==
    /\ conn.tag = "B"
    /\ hist.transitions = 1
    /\ Polled("upgrade_h2")
    /\ conn.h2.rw = [pre |-> <<"P", "R">>, rewinds |-> 1]
    /\ conn.h2.got = <<>>
    /\ io.unread = <<>>

\* C26 as the specification states it: poll_without_shutdown, and the future
\* of without_shutdown, called with the h1 driver in the slot returns
\* Pending, Ok or Err and does not reach the panic of the h2 arm, whatever
\* the mode and whatever the peer sends.
C26_H1CallNeverPanics ==
    (last.op \in {"poll_without_shutdown", "without_shutdown"} /\ last.before = "A")
    => /\ panicked = "none"
       /\ last.ret \in {"Pending", "Ok", "Some"} \cup ErrKinds

\* what holds of such a call: it panics exactly when the h1 driver reported
\* the preface on a connection with the fallback, and then the transition
\* has been made in that same call, only the h1 driver has been polled, and
\* the h2 driver is in the slot, never polled
C26_PanicsOnlyAfterTransition ==
    (last.op \in {"poll_without_shutdown", "without_shutdown"} /\ last.before = "A")
    => /\ panicked \in {"none", "not yet implemented: Connection::poll_without_shutdown h2"}
       /\ panicked # "none"
          <=> (HasEv("h1.poll_without_shutdown", "VersionH2")
                  /\ fallback.tag = "ToHttp2")
       /\ panicked # "none"
          => /\ last.evs = << [ev |-> "h1.poll_without_shutdown", res |-> "VersionH2"],
                              [ev |-> "upgrade_h2", res |-> "-"] >>
             /\ conn.tag = "B"
             /\ conn.h2.got = <<>>
             /\ hist.transitions = 1

\* the peer's preface, read by poll_without_shutdown on an h1 driver with the
\* fallback, ends in the panic of the h2 arm
C26_PanicAfterPreface ==
    /\ last.op = "poll_without_shutdown"
    /\ last.before = "A"
    /\ hist.first = "P"
    /\ panicked = "not yet implemented: Connection::poll_without_shutdown h2"

\* C27 as the specification states it: once graceful_shutdown has been
\* called, the driver in the slot has shutdown requested from then on: an h1
\* driver has keep-alive disabled, an h2 driver is in graceful shutdown, also
\* when the call came in the h1 phase and the connection went over to h2.
C27_ShutdownNeverLost ==
    hist.gs # "no"
    => /\ conn.tag = "A" => conn.h1.ka = "Disabled"
       /\ conn.tag = "B" => conn.h2.graceful

\* what holds: the request stays with the driver that got it.  It is lost
\* exactly when that was the h1 driver and a transition has replaced it: the
\* h2 driver that upgrade_h2 builds is not in graceful shutdown until
\* graceful_shutdown is called again.
C27_LostOnlyByTransition ==
    hist.gs # "no"
    => /\ conn.tag = "A" => (conn.h1.ka = "Disabled" /\ hist.gs \in GsOnH1)
       /\ (conn.tag = "B" /\ hist.gs = "h2") => conn.h2.graceful
       /\ (conn.tag = "B" /\ ~conn.h2.graceful)
          => (hist.gs \in GsOnH1 /\ hist.transitions = 1)
       /\ (conn.tag = "B" /\ hist.gs \in GsOnH1 /\ last.op # "graceful_shutdown"
              /\ Polled("upgrade_h2"))
          => ~conn.h2.graceful

\* graceful_shutdown on the h1 driver, then the preface: the h2 driver is
\* polled and is not in graceful shutdown
C27_RequestLost ==
    /\ hist.gs = "fresh"
    /\ last.op = "poll"
    /\ last.ret = "Pending"
    /\ conn.tag = "B"
    /\ ~conn.h2.graceful
    /\ conn.h2.got = <<"P">>

\* the calls that can run upgrade_h2
TransitionOps == {"poll", "poll_without_shutdown", "without_shutdown", "upgradeable_poll"}

\* C28: upgrade_h2 runs only with the h1 driver in the slot and the fallback
\* ToHttp2: it runs inside a poll that started on the h1 driver, right after
\* that driver reported the preface; it never reaches
\* unreachable!("upgrade_h2 with Fallback::Http1Only") nor its
\* panic!("h2 cannot into_inner"), the slot is empty when it stores the h2
\* driver, and it leaves the h2 driver in the slot.
C28_Inv ==
    /\ panicked \notin {"unreachable: upgrade_h2 with Fallback::Http1Only",
                        "assertion failed: self.conn.is_none()"}
    /\ last.op \in TransitionOps => panicked # "h2 cannot into_inner"
    /\ \A i \in 1..Len(last.evs) :
          last.evs[i].ev = "upgrade_h2"
          => /\ last.op \in TransitionOps
             /\ last.before = "A"
             /\ fallback.tag = "ToHttp2"
             /\ i = 2
             /\ last.evs[1].ev \in {"h1.poll", "h1.poll_without_shutdown"}
             /\ last.evs[1].res = "VersionH2"
             /\ conn.tag = "B"
    /\ hist.transitions > 0
       => /\ fallback.tag = "ToHttp2"
          /\ hist.h1_built = 1
          /\ hist.h2_built = 1
    /\ fallback.tag = "Http1Only" => hist.transitions = 0

C28_Step ==
    hist'.transitions # hist.transitions
    => /\ conn.tag = "A"
       /\ conn'.tag = "B"
       /\ fallback.tag = "ToHttp2"
       /\ fallback' = fallback
       /\ hist'.transitions = hist.transitions + 1
       /\ last'.op \in TransitionOps
       /\ conn'.h2.service = conn.h1.service
       /\ conn'.h2.builder = fallback.builder
       /\ conn'.h2.exec = fallback.exec

C28_TransitionPreconditions == []C28_Inv /\ [][C28_Step]_vars

\* the poll of an UpgradeableConnection has made the transition and gone on
\* to poll the h2 driver
C28_Witness ==
    /\ last.op = "upgradeable_poll"
    /\ last.before = "A"
    /\ last.evs = << [ev |-> "h1.poll", res |-> "VersionH2"],
                     [ev |-> "upgrade_h2", res |-> "-"],
                     [ev |-> "h2.poll", res |-> "Pending"] >>
    /\ conn.tag = "B"
    /\ panicked = "none"
    /\ hist.transitions = 1

====
